---- MODULE Spec2Model ----
(***************************************************************************)
(* A model of the workspace-merge engine of but-workspace                  *)
(* (WorkspaceCommit::from_new_merge_with_metadata, commit.rs) together     *)
(* with the workspace commit constructor (WorkspaceCommit::new_from_stacks). *)
(*                                                                         *)
(* One behaviour is one call of from_new_merge_with_metadata: the input    *)
(* (stacks, hero_stack, graph) is drawn by Init, Preprocess is the         *)
(* filter_map that builds `tips`, and every iteration of 'tips_loop is one *)
(* step. Trees are concrete (a content per file) and repo.merge_trees is   *)
(* the per-file three-way merge, so that "conflicts" is computed and not   *)
(* assumed.                                                                *)
(***************************************************************************)
EXTENDS Integers, Sequences, FiniteSets, TLC

\* The longest input list of stacks.
MaxStacks == 4

----------------------------------------------------------------------------
\* Option<T>: None is the empty sequence, Some(x) the one-element sequence.
None == <<>>
Some(x) == <<x>>
IsSome(o) == o # <<>>
Unwrap(o) == o[1]

\* The files of a tree and the contents a file can have; "base" is the
\* content every file has in the root commit.
Files == {"f", "g"}
Contents == {"base", "x", "y"}
Trees == [Files -> Contents]
BaseTree == [p \in Files |-> "base"]

\* Ref names are full names; shorten() strips the category prefix. A short
\* name below zero is a name whose bytes are not UTF-8.
FullName(i) == <<"refs/heads", i>>
shorten(ref_name) == ref_name[2]

\* BStr::to_str_lossy: the bytes that are not UTF-8 become the replacement
\* character (the text 0), so that different names can give one text.
to_str_lossy(name) == IF name < 0 THEN 0 ELSE name

\* ObjectId::to_string: the hex digits of the id
to_hex(id) == <<"hex", id[2]>>

\* Commit ids and segment indices are different identifier spaces.
CommitId(i) == <<"commit", i>>
RootSegment == 0

----------------------------------------------------------------------------
VARIABLES
    stacks,          \* input: the WorkspaceStack list (branches, relation)
    hero_stack,      \* input: Option<FullName>
    graph,           \* input: the graph and the trees of its commits
    workspace,       \* input of from_graph_workspace: stacks and a tree
    pc,              \* "start" | "loop" | "done" | "written" | "error"
    tips,            \* Vec<(Instruction, ref_name, commit_id, sidx)>
    missing_stacks,  \* Vec<FullName>
    ran_merge_trials_loop_safety,
    tip_idx,         \* position of 'tips_loop (1-based)
    prev_base_sidx,  \* Option<SegmentIndex>
    merge_tree_id,   \* Option<tree>
    previous_tip,    \* Option<(tree, sidx)>
    outcome,         \* Option<Outcome>
    err,             \* Option<error label>
    odb,             \* the commits written with repo.write_object, in order
    hist,            \* history of the run: counters of restarts and merges,
                     \* and the tips whose trees are in the running tree
    command          \* one invocation of `but commit`: its arguments, its
                     \* position and what it has done so far

input == <<stacks, hero_stack, graph, workspace>>
run == <<pc, tips, missing_stacks, ran_merge_trials_loop_safety, tip_idx,
         prev_base_sidx, merge_tree_id, previous_tip, outcome, err, odb, hist>>
vars == <<stacks, hero_stack, graph, workspace, pc, tips, missing_stacks,
          ran_merge_trials_loop_safety, tip_idx, prev_base_sidx,
          merge_tree_id, previous_tip, outcome, err, odb, hist, command>>

----------------------------------------------------------------------------
\* Instruction
I_Merge == [tag |-> "Merge", hero_sidx |-> None, hero_tree_id |-> None]
I_MergeTrial(hs, ht) ==
    [tag |-> "MergeTrial", hero_sidx |-> Some(hs), hero_tree_id |-> Some(ht)]
I_Skip == [tag |-> "Skip", hero_sidx |-> None, hero_tree_id |-> None]
I_CertainConflict ==
    [tag |-> "CertainConflict", hero_sidx |-> None, hero_tree_id |-> None]

should_skip(mode) == mode.tag \in {"Skip", "CertainConflict"}

----------------------------------------------------------------------------
\* The collaborators.

\* graph.segment_and_commit_by_ref_name
segment_and_commit_by_ref_name(g, ref_name) ==
    IF ref_name \in DOMAIN g.refs THEN g.refs[ref_name] ELSE None

RECURSIVE Ancestors(_, _)
Ancestors(g, s) ==
    {s} \cup (IF IsSome(g.parent[s]) THEN Ancestors(g, Unwrap(g.parent[s])) ELSE {})

\* graph.first_merge_base: the lowest common ancestor of two segments
first_merge_base(g, left, right) ==
    LET common == Ancestors(g, left) \cap Ancestors(g, right) IN
    IF common = {} THEN None
    ELSE Some(CHOOSE c \in common : \A d \in common : d \in Ancestors(g, c))

\* graph.tip_skip_empty(sidx): the nearest commit of a segment
tip_skip_empty(g, sidx) == g.commit[sidx]

\* peel_to_tree
peel_to_tree(g, commit_id) == g.tree[commit_id]

\* repo.merge_trees with fail-fast options: per file, a side that equals the
\* base takes the other side, equal sides agree, anything else conflicts.
MergeFile(b, o, t) ==
    IF o = t THEN o ELSE IF o = b THEN t ELSE IF t = b THEN o ELSE "conflict"

merge_trees(base, ours, theirs) ==
    LET m == [p \in Files |-> MergeFile(base[p], ours[p], theirs[p])] IN
    [tree |-> [p \in Files |-> IF m[p] = "conflict" THEN ours[p] ELSE m[p]],
     has_unresolved_conflicts |-> \E p \in Files : m[p] = "conflict"]

\* A merge base that falls back on the root tree at the left position when
\* a lookup fails.
compute_merge_base_with_fallback(g, left, right) ==
    LET base_sidx == first_merge_base(g, left, right) IN
    IF ~IsSome(base_sidx) THEN Some([tree |-> BaseTree, sidx |-> left])
    ELSE LET base_commit == tip_skip_empty(g, Unwrap(base_sidx)) IN
         IF ~IsSome(base_commit) THEN Some([tree |-> BaseTree, sidx |-> left])
         ELSE Some([tree |-> peel_to_tree(g, Unwrap(base_commit)),
                    sidx |-> Unwrap(base_sidx)])

\* compute_merge_base: Some([tree, sidx]) or None when a lookup fails
compute_merge_base(g, left, right) ==
    LET base_sidx == first_merge_base(g, left, right) IN
    IF ~IsSome(base_sidx) THEN None
    ELSE LET base_commit == tip_skip_empty(g, Unwrap(base_sidx)) IN
         IF ~IsSome(base_commit) THEN None
         ELSE Some([tree |-> peel_to_tree(g, Unwrap(base_commit)),
                    sidx |-> Unwrap(base_sidx)])

\* lines 344-359: the context of the error of a failed lookup, which is
\* formatted with the index of both segments
merge_base_error(g, left, right) ==
    LET base_sidx == first_merge_base(g, left, right) IN
    IF ~IsSome(base_sidx)
    THEN "Couldn't find merge-base between segments " \o ToString(left)
            \o " and " \o ToString(right)
    ELSE "Base segment " \o ToString(Unwrap(base_sidx)) \o " between "
            \o ToString(left) \o " and " \o ToString(right)
            \o " didn't have  single commit reachable"

----------------------------------------------------------------------------
\* The workspace commit constructor.

GITBUTLER_WORKSPACE_COMMIT_TITLE == "GitButler Workspace Commit"

Line(text, arg) == [text |-> text, arg |-> arg]

\* A list that leaves out the stacks without a name.
RECURSIVE branch_lines_named_only(_)
branch_lines_named_only(sts) ==
    IF sts = <<>> THEN <<>>
    ELSE LET branch == Head(sts) IN
         (IF IsSome(branch.name)
             THEN <<Line(" - ", Some(to_str_lossy(Unwrap(branch.name)))),
                    Line("   branch head: ", Some(to_hex(branch.tip)))>>
             ELSE <<>>)
         \o branch_lines_named_only(Tail(sts))

\* lines 463-473: the lines of the stacks
RECURSIVE branch_lines(_)
branch_lines(sts) ==
    IF sts = <<>> THEN <<>>
    ELSE LET branch == Head(sts) IN
         (IF IsSome(branch.name)
             THEN <<Line(" - ", Some(to_str_lossy(Unwrap(branch.name))))>>
             ELSE <<>>)
         \o <<Line("   branch head: ", Some(to_hex(branch.tip)))>>
         \o branch_lines(Tail(sts))

\* The times a clock, GIT_COMMITTER_DATE or the configuration can give.
Times == {1, 2}

\* What a call reads besides its arguments: GIT_COMMITTER_DATE if it parses,
\* the clock, and the committer time of the repository configuration.
Envs ==
    [date_var : {None, Some(2)},
     now : Times,
     committer_time : {None, Some(1)}]

\* commit_time: the overriding variable if it holds a date, or else now
commit_time(env) ==
    IF IsSome(env.date_var) THEN Unwrap(env.date_var) ELSE env.now

\* fixup_times: the committer time of the configuration, if there is one
fixup_times(ws_commit, env) ==
    IF IsSome(env.committer_time)
    THEN [ws_commit EXCEPT !.time = Unwrap(env.committer_time)]
    ELSE ws_commit

\* A constructor that forgets the parents.
new_from_stacks_no_parents(sts, env) ==
    [tree |-> None, parents |-> <<>>, time |-> commit_time(env),
     message |-> <<Line(GITBUTLER_WORKSPACE_COMMIT_TITLE, None)>>]

\* WorkspaceCommit::new_from_stacks: the commit lives in memory, its tree is
\* the empty tree until the caller sets it. Author and committer have the
\* same time.
new_from_stacks(sts, env) ==
    [tree |-> None,
     parents |-> [i \in 1..Len(sts) |-> sts[i].tip],
     time |-> commit_time(env),
     message |->
        <<Line(GITBUTLER_WORKSPACE_COMMIT_TITLE, None)>>
        \o (IF sts # <<>>
               THEN <<Line("This is a merge commit of the virtual branches in your workspace.", None)>>
               ELSE <<Line("This is placeholder commit and will be replaced by a merge of your virtual branches.", None)>>)
        \o <<Line("Due to GitButler managing multiple virtual branches, you cannot switch back and", None),
              Line("forth between git branches and virtual branches easily. ", None),
              Line("If you switch to another branch, GitButler will need to be reinitialized.", None),
              Line("If you commit on this branch, GitButler will throw it away.", None)>>
        \o (IF sts # <<>>
               THEN <<Line("Here are the branches that are currently applied:", None)>>
                    \o branch_lines(sts)
               ELSE <<>>)
        \o <<Line("For more information about what we're doing here, check out our docs:", None),
              Line("https://docs.gitbutler.com/features/branch-management/integration-branch", None)>>]

\* WorkspaceCommit::from_id: the commit of an id, decoded
from_id(objects, commit_id) == objects[commit_id]

\* A detector that looks for the title on any line.
is_managed_workspace_by_any_line(message) ==
    \E i \in 1..Len(message) :
        message[i] = Line(GITBUTLER_WORKSPACE_COMMIT_TITLE, None)

\* but_graph::projection::commit::is_managed_workspace_by_message: the
\* title of the message, its first line, is the workspace commit title
is_managed_workspace_by_message(message) ==
    /\ message # <<>>
    /\ Head(message) = Line(GITBUTLER_WORKSPACE_COMMIT_TITLE, None)

\* A test that takes every commit that has a parent for a managed one.
is_managed_if_it_has_parents(ws_commit) == ws_commit.parents # <<>>

\* WorkspaceCommit::is_managed
is_managed(ws_commit) == is_managed_workspace_by_message(ws_commit.message)

----------------------------------------------------------------------------
\* The engine, as functions of the state of one run.

Cur ==
    [pc |-> pc, tips |-> tips, missing_stacks |-> missing_stacks,
     ran_merge_trials_loop_safety |-> ran_merge_trials_loop_safety,
     tip_idx |-> tip_idx, prev_base_sidx |-> prev_base_sidx,
     merge_tree_id |-> merge_tree_id, previous_tip |-> previous_tip,
     outcome |-> outcome, err |-> err, odb |-> odb, hist |-> hist]

Assign(r) ==
    /\ pc' = r.pc
    /\ tips' = r.tips
    /\ missing_stacks' = r.missing_stacks
    /\ ran_merge_trials_loop_safety' = r.ran_merge_trials_loop_safety
    /\ tip_idx' = r.tip_idx
    /\ prev_base_sidx' = r.prev_base_sidx
    /\ merge_tree_id' = r.merge_tree_id
    /\ previous_tip' = r.previous_tip
    /\ outcome' = r.outcome
    /\ err' = r.err
    /\ odb' = r.odb
    /\ hist' = r.hist

Assign0(r) ==
    /\ pc = r.pc
    /\ tips = r.tips
    /\ missing_stacks = r.missing_stacks
    /\ ran_merge_trials_loop_safety = r.ran_merge_trials_loop_safety
    /\ tip_idx = r.tip_idx
    /\ prev_base_sidx = r.prev_base_sidx
    /\ merge_tree_id = r.merge_tree_id
    /\ previous_tip = r.previous_tip
    /\ outcome = r.outcome
    /\ err = r.err
    /\ odb = r.odb
    /\ hist = r.hist

\* The state before the call.
Fresh ==
    [pc |-> "start", tips |-> <<>>, missing_stacks |-> <<>>,
     ran_merge_trials_loop_safety |-> FALSE, tip_idx |-> 1,
     prev_base_sidx |-> None, merge_tree_id |-> None, previous_tip |-> None,
     outcome |-> None, err |-> None, odb |-> <<>>,
     hist |-> [hero_restarts |-> 0, trial_restarts |-> 0, merges |-> 0,
               passes |-> 0, folded |-> <<>>, disallowed |-> {}]]

\* bail!() and the `?` of a failed lookup
Bail(r, label) == [r EXCEPT !.pc = "error", !.err = Some(label)]

\* line 128: s.branches.first(), the top segment of a stack that has one
has_branch(s) == s.branches # <<>>
top_segment(s) == Head(s.branches)

\* A filter_map that drops unresolvable refs without recording them.
RECURSIVE collect_tips_forgetful(_, _)
collect_tips_forgetful(g, sts) ==
    IF sts = <<>> THEN [tips |-> <<>>, missing_stacks |-> <<>>]
    ELSE LET s == Head(sts)
             rest == collect_tips_forgetful(g, Tail(sts))
             found == segment_and_commit_by_ref_name(g, top_segment(s))
         IN  IF ~has_branch(s) \/ s.relation = "Outside" \/ ~IsSome(found) THEN rest
             ELSE [rest EXCEPT !.tips =
                     <<[mode |-> I_Merge, ref_name |-> top_segment(s),
                        commit_id |-> Unwrap(found).commit,
                        sidx |-> Unwrap(found).segment]>> \o @]

\* A filter_map that ends at the first unresolvable ref.
RECURSIVE collect_tips_until_missing(_, _)
collect_tips_until_missing(g, sts) ==
    IF sts = <<>> THEN [tips |-> <<>>, missing_stacks |-> <<>>]
    ELSE LET s == Head(sts)
             found == segment_and_commit_by_ref_name(g, top_segment(s))
         IN  IF ~has_branch(s) \/ s.relation = "Outside"
             THEN collect_tips_until_missing(g, Tail(sts))
             ELSE IF IsSome(found)
                  THEN [collect_tips_until_missing(g, Tail(sts)) EXCEPT !.tips =
                          <<[mode |-> I_Merge, ref_name |-> top_segment(s),
                             commit_id |-> Unwrap(found).commit,
                             sidx |-> Unwrap(found).segment]>> \o @]
                  ELSE [tips |-> <<>>, missing_stacks |-> <<top_segment(s)>>]

\* A filter_map that looks up the ref before it looks at the relation.
RECURSIVE collect_tips_lookup_first(_, _)
collect_tips_lookup_first(g, sts) ==
    IF sts = <<>> THEN [tips |-> <<>>, missing_stacks |-> <<>>]
    ELSE LET s == Head(sts)
             rest == collect_tips_lookup_first(g, Tail(sts))
             found == segment_and_commit_by_ref_name(g, top_segment(s))
         IN  IF ~has_branch(s) THEN rest
             ELSE IF ~IsSome(found)
                  THEN [rest EXCEPT !.missing_stacks = <<top_segment(s)>> \o @]
                  ELSE IF s.relation = "Outside" THEN rest
                  ELSE [rest EXCEPT !.tips =
                          <<[mode |-> I_Merge, ref_name |-> top_segment(s),
                             commit_id |-> Unwrap(found).commit,
                             sidx |-> Unwrap(found).segment]>> \o @]

\* A filter_map that lets Outside stacks through.
RECURSIVE collect_tips_with_outside(_, _)
collect_tips_with_outside(g, sts) ==
    IF sts = <<>> THEN [tips |-> <<>>, missing_stacks |-> <<>>]
    ELSE LET s == Head(sts)
             rest == collect_tips_with_outside(g, Tail(sts))
             found == segment_and_commit_by_ref_name(g, top_segment(s))
         IN  IF ~has_branch(s) THEN rest
             ELSE IF IsSome(found)
                  THEN [rest EXCEPT !.tips =
                          <<[mode |-> I_Merge, ref_name |-> top_segment(s),
                             commit_id |-> Unwrap(found).commit,
                             sidx |-> Unwrap(found).segment]>> \o @]
                  ELSE [rest EXCEPT !.missing_stacks = <<top_segment(s)>> \o @]

\* A filter_map that records every ref it looks up as missing.
RECURSIVE collect_tips_all_missing(_, _)
collect_tips_all_missing(g, sts) ==
    IF sts = <<>> THEN [tips |-> <<>>, missing_stacks |-> <<>>]
    ELSE LET s == Head(sts)
             rest == collect_tips_all_missing(g, Tail(sts))
             found == segment_and_commit_by_ref_name(g, top_segment(s))
         IN  IF ~has_branch(s) \/ s.relation = "Outside" THEN rest
             ELSE IF IsSome(found)
                  THEN [rest EXCEPT !.tips =
                          <<[mode |-> I_Merge, ref_name |-> top_segment(s),
                             commit_id |-> Unwrap(found).commit,
                             sidx |-> Unwrap(found).segment]>> \o @,
                          !.missing_stacks = <<top_segment(s)>> \o @]
                  ELSE [rest EXCEPT !.missing_stacks = <<top_segment(s)>> \o @]

\* The filter_maps over the input (lines 126-150): stacks without a branch
\* and Outside stacks are dropped, unresolvable refs go to missing_stacks,
\* the rest become tips.
RECURSIVE collect_tips(_, _)
collect_tips(g, sts) ==
    IF sts = <<>> THEN [tips |-> <<>>, missing_stacks |-> <<>>]
    ELSE LET s == Head(sts)
             rest == collect_tips(g, Tail(sts))
             found == segment_and_commit_by_ref_name(g, top_segment(s))
         IN  IF ~has_branch(s) \/ s.relation = "Outside" THEN rest
             ELSE IF IsSome(found)
                  THEN [rest EXCEPT !.tips =
                          <<[mode |-> I_Merge, ref_name |-> top_segment(s),
                             commit_id |-> Unwrap(found).commit,
                             sidx |-> Unwrap(found).segment]>> \o @]
                  ELSE [rest EXCEPT !.missing_stacks = <<top_segment(s)>> \o @]

\* 'retry_loop: a pass starts with nothing merged.
start_pass(r) ==
    [r EXCEPT !.pc = "loop", !.tip_idx = 1, !.prev_base_sidx = None,
              !.merge_tree_id = None, !.previous_tip = None,
              !.hist.passes = @ + 1, !.hist.folded = <<>>]

\* A preprocessing that takes UnmergedTree stacks for Merged ones.
preprocess_without_todo(r, g, sts) ==
    LET c == collect_tips(g, sts) IN
    start_pass([r EXCEPT !.tips = c.tips, !.missing_stacks = c.missing_stacks])

\* The todo!() of line 133 panics as soon as the filter_map meets a stack
\* tagged UnmergedTree that has a branch.
preprocess(r, g, sts) ==
    IF \E i \in 1..Len(sts) : has_branch(sts[i]) /\ sts[i].relation = "UnmergedTree"
    THEN Bail(r, "todo: UnmergedTree")
    ELSE LET c == collect_tips(g, sts) IN
         start_pass([r EXCEPT !.tips = c.tips,
                              !.missing_stacks = c.missing_stacks])

\* `continue 'tips_loop` without retaining anything
next_tip(r) == [r EXCEPT !.tip_idx = @ + 1]

\* An adoption that does not retain the merged tree.
adopt_without_tree(r, g, merged, base_sidx) ==
    LET t == r.tips[r.tip_idx] IN
    [r EXCEPT !.prev_base_sidx = Some(base_sidx),
              !.previous_tip =
                  Some([tree |-> peel_to_tree(g, t.commit_id), sidx |-> t.sidx]),
              !.hist.folded = Append(@, shorten(t.ref_name)),
              !.tip_idx = @ + 1]

\* lines 284-287: adopt the merge and go on
adopt(r, g, merged, base_sidx) ==
    LET t == r.tips[r.tip_idx] IN
    [r EXCEPT !.prev_base_sidx = Some(base_sidx),
              !.merge_tree_id = Some(merged),
              !.previous_tip =
                  Some([tree |-> peel_to_tree(g, t.commit_id), sidx |-> t.sidx]),
              !.hist.folded = Append(@, shorten(t.ref_name)),
              !.tip_idx = @ + 1]

\* lines 163-165
skip_tip(r) == next_tip(r)

\* A first tip whose tree is taken from the root commit.
first_tip_root_tree(r, g) ==
    LET t == r.tips[r.tip_idx] IN
    [r EXCEPT !.previous_tip =
                  Some([tree |-> peel_to_tree(g, CommitId(RootSegment)),
                        sidx |-> t.sidx]),
              !.hist.folded = Append(@, shorten(t.ref_name)),
              !.tip_idx = @ + 1]

\* lines 166-167, 287: the first active tip of a pass
first_tip(r, g) ==
    LET t == r.tips[r.tip_idx] IN
    [r EXCEPT !.previous_tip =
                  Some([tree |-> peel_to_tree(g, t.commit_id), sidx |-> t.sidx]),
              !.hist.folded = Append(@, shorten(t.ref_name)),
              !.tip_idx = @ + 1]

\* A look-up that searches tips[..=tip_idx] and so finds the hero itself.
presumed_conflicting_tip_inclusive(ts, idx) ==
    LET active == {j \in 1..idx : ~should_skip(ts[j].mode)} IN
    IF active = {} THEN None
    ELSE Some(CHOOSE j \in active : \A k \in active : k <= j)

\* A look-up that searches the tips behind tip_idx.
presumed_conflicting_tip_behind(ts, idx) ==
    LET active == {j \in (idx + 1)..Len(ts) : ~should_skip(ts[j].mode)} IN
    IF active = {} THEN None
    ELSE Some(CHOOSE j \in active : \A k \in active : j <= k)

\* A look-up that finds the first tip that is not skipped.
presumed_conflicting_tip_first(ts, idx) ==
    LET active == {j \in 1..(idx - 1) : ~should_skip(ts[j].mode)} IN
    IF active = {} THEN None
    ELSE Some(CHOOSE j \in active : \A k \in active : j <= k)

\* lines 197-200: the nearest tip in front of tip_idx that is not skipped
presumed_conflicting_tip(ts, idx) ==
    LET active == {j \in 1..(idx - 1) : ~should_skip(ts[j].mode)} IN
    IF active = {} THEN None
    ELSE Some(CHOOSE j \in active : \A k \in active : k <= j)

\* A look-back that takes no skipped tip for a certain conflict and puts
\* them all on trial.
RECURSIVE look_back_trials_only(_, _, _, _, _, _, _)
look_back_trials_only(ts, i, n, saw_first_certain_conflict, has_merge_trials, hs, ht) ==
    IF i > n
    THEN [tips |-> ts, has_merge_trials |-> has_merge_trials, bug |-> FALSE]
    ELSE CASE ts[i].mode.tag = "Merge" ->
                look_back_trials_only(ts, i + 1, n, saw_first_certain_conflict,
                                      has_merge_trials, hs, ht)
           [] ts[i].mode.tag = "MergeTrial" ->
                [tips |-> ts, has_merge_trials |-> has_merge_trials, bug |-> TRUE]
           [] ts[i].mode.tag = "CertainConflict" ->
                look_back_trials_only(ts, i + 1, n, TRUE, has_merge_trials, hs, ht)
           [] ts[i].mode.tag = "Skip" ->
                look_back_trials_only([ts EXCEPT ![i].mode = I_MergeTrial(hs, ht)],
                                      i + 1, n, TRUE, TRUE, hs, ht)

\* lines 222-244: the look-back of the hero over tips[..tip_idx]
RECURSIVE look_back(_, _, _, _, _, _, _)
look_back(ts, i, n, saw_first_certain_conflict, has_merge_trials, hs, ht) ==
    IF i > n
    THEN [tips |-> ts, has_merge_trials |-> has_merge_trials, bug |-> FALSE]
    ELSE CASE ts[i].mode.tag = "Merge" ->
                look_back(ts, i + 1, n, saw_first_certain_conflict,
                          has_merge_trials, hs, ht)
           [] ts[i].mode.tag = "MergeTrial" ->
                [tips |-> ts, has_merge_trials |-> has_merge_trials, bug |-> TRUE]
           [] ts[i].mode.tag = "CertainConflict" ->
                look_back(ts, i + 1, n, TRUE, has_merge_trials, hs, ht)
           [] ts[i].mode.tag = "Skip" ->
                IF saw_first_certain_conflict
                THEN look_back([ts EXCEPT ![i].mode = I_MergeTrial(hs, ht)],
                               i + 1, n, TRUE, TRUE, hs, ht)
                ELSE look_back([ts EXCEPT ![i].mode = I_CertainConflict],
                               i + 1, n, TRUE, has_merge_trials, hs, ht)

\* A test that takes every tip for the hero.
is_hero_always(hero, ref_name) == TRUE

\* line 184
is_hero(hero, ref_name) == IsSome(hero) /\ Unwrap(hero) = ref_name

\* A restart that disallows nothing.
hero_conflict_no_progress(r) ==
    start_pass([r EXCEPT !.hist.hero_restarts = @ + 1])

\* A hero conflict that disallows the nearest allowed tip and goes on with
\* the pass.
hero_conflict_without_restart(r) ==
    LET j == presumed_conflicting_tip(r.tips, r.tip_idx) IN
    IF ~IsSome(j)
    THEN Bail(r, "BUG: no allowed stack in front of the hero")
    ELSE next_tip([r EXCEPT !.tips[Unwrap(j)].mode = I_Skip,
                            !.hist.hero_restarts = @ + 1,
                            !.hist.disallowed = @ \cup {Unwrap(j)}])

\* A restart that disallows the nearest allowed tip and allows the tips the
\* restarts before it disallowed.
hero_conflict_reallows(r) ==
    LET j == presumed_conflicting_tip(r.tips, r.tip_idx) IN
    IF ~IsSome(j)
    THEN Bail(r, "BUG: no allowed stack in front of the hero")
    ELSE start_pass([r EXCEPT
            !.tips = [i \in 1..Len(r.tips) |->
                        IF i = Unwrap(j) THEN [r.tips[i] EXCEPT !.mode = I_Skip]
                        ELSE IF i \in r.hist.disallowed
                        THEN [r.tips[i] EXCEPT !.mode = I_Merge]
                        ELSE r.tips[i]],
            !.hist.hero_restarts = @ + 1,
            !.hist.disallowed = @ \cup {Unwrap(j)}])

\* lines 191-203: the hero conflicts, so the nearest allowed tip in front of
\* it is disallowed and the whole operation restarts.
hero_conflict(r) ==
    LET j == presumed_conflicting_tip(r.tips, r.tip_idx) IN
    IF ~IsSome(j)
    THEN Bail(r, "BUG: no allowed stack in front of the hero")
    ELSE start_pass([r EXCEPT !.tips[Unwrap(j)].mode = I_Skip,
                              !.hist.hero_restarts = @ + 1,
                              !.hist.disallowed = @ \cup {Unwrap(j)}])

\* A look-back that restarts for its merge-trials without recording that it
\* did.
hero_merged_flag_forgotten(r, g, merged, base_sidx) ==
    LET t == r.tips[r.tip_idx]
        lb == look_back(r.tips, 1, r.tip_idx - 1, FALSE, FALSE,
                        t.sidx, peel_to_tree(g, t.commit_id))
    IN  IF lb.has_merge_trials
        THEN start_pass([r EXCEPT !.tips = lb.tips,
                                  !.hist.trial_restarts = @ + 1])
        ELSE adopt([r EXCEPT !.tips = lb.tips], g, merged, base_sidx)

\* A look-back that makes its merge-trials and goes on with the pass.
hero_merged_without_restart(r, g, merged, base_sidx) ==
    LET t == r.tips[r.tip_idx]
        lb == look_back(r.tips, 1, r.tip_idx - 1, FALSE, FALSE,
                        t.sidx, peel_to_tree(g, t.commit_id))
    IN  IF lb.bug
        THEN Bail(r, "BUG: found a merge-trial, even though trial should be concluded by now")
        ELSE adopt([r EXCEPT !.tips = lb.tips], g, merged, base_sidx)

\* A look-back that restarts whenever it retagged a tip.
hero_merged_restarts_for_any_retag(r, g, merged, base_sidx) ==
    LET t == r.tips[r.tip_idx]
        lb == look_back(r.tips, 1, r.tip_idx - 1, FALSE, FALSE,
                        t.sidx, peel_to_tree(g, t.commit_id))
    IN  IF lb.bug
        THEN Bail(r, "BUG: found a merge-trial, even though trial should be concluded by now")
        ELSE IF lb.tips # r.tips
        THEN IF r.ran_merge_trials_loop_safety
             THEN Bail([r EXCEPT !.tips = lb.tips],
                       "BUG: somehow we managed to try to run merge-trials twice")
             ELSE start_pass([r EXCEPT !.tips = lb.tips,
                                       !.ran_merge_trials_loop_safety = TRUE,
                                       !.hist.trial_restarts = @ + 1])
        ELSE adopt([r EXCEPT !.tips = lb.tips], g, merged, base_sidx)

\* lines 209-255: the hero merged cleanly
hero_merged(r, g, merged, base_sidx) ==
    LET t == r.tips[r.tip_idx]
        lb == look_back(r.tips, 1, r.tip_idx - 1, FALSE, FALSE,
                        t.sidx, peel_to_tree(g, t.commit_id))
    IN  IF lb.bug
        THEN Bail(r, "BUG: found a merge-trial, even though trial should be concluded by now")
        ELSE IF lb.has_merge_trials
        THEN IF r.ran_merge_trials_loop_safety
             THEN Bail([r EXCEPT !.tips = lb.tips],
                       "BUG: somehow we managed to try to run merge-trials twice")
             ELSE start_pass([r EXCEPT !.tips = lb.tips,
                                       !.ran_merge_trials_loop_safety = TRUE,
                                       !.hist.trial_restarts = @ + 1])
        ELSE adopt([r EXCEPT !.tips = lb.tips], g, merged, base_sidx)

\* A hero test that retains the merge of a tip it found in conflict.
merge_trial_retains_conflict(r, g, merged, base_sidx) ==
    LET t == r.tips[r.tip_idx]
        base == compute_merge_base(g, base_sidx, Unwrap(t.mode.hero_sidx))
    IN  IF ~IsSome(base)
        THEN Bail(r, merge_base_error(g, base_sidx, Unwrap(t.mode.hero_sidx)))
        ELSE LET merge == merge_trees(Unwrap(base).tree, merged,
                                      Unwrap(t.mode.hero_tree_id))
                 counted == [r EXCEPT !.hist.merges = @ + 1]
             IN  IF merge.has_unresolved_conflicts
                 THEN adopt([counted EXCEPT
                                !.tips[r.tip_idx].mode = I_CertainConflict],
                            g, merged, base_sidx)
                 ELSE adopt([counted EXCEPT !.tips[r.tip_idx].mode = I_Merge],
                            g, merged, base_sidx)

\* lines 256-283: a merge-trial merged cleanly and is tested against the hero
merge_trial(r, g, merged, base_sidx) ==
    LET t == r.tips[r.tip_idx]
        base == compute_merge_base(g, base_sidx, Unwrap(t.mode.hero_sidx))
    IN  IF ~IsSome(base)
        THEN Bail(r, merge_base_error(g, base_sidx, Unwrap(t.mode.hero_sidx)))
        ELSE LET merge == merge_trees(Unwrap(base).tree, merged,
                                      Unwrap(t.mode.hero_tree_id))
                 counted == [r EXCEPT !.hist.merges = @ + 1]
             IN  IF merge.has_unresolved_conflicts
                 THEN next_tip([counted EXCEPT
                                  !.tips[r.tip_idx].mode = I_CertainConflict])
                 ELSE adopt([counted EXCEPT !.tips[r.tip_idx].mode = I_Merge],
                            g, merged, base_sidx)

\* A conflict that is blamed on the first tip of the list.
non_hero_conflict_blames_first(r) == next_tip([r EXCEPT !.tips[1].mode = I_Skip])

\* A conflict that is ignored and yet leaves the tip as the previous tip.
non_hero_conflict_retains_tip(r) ==
    LET t == r.tips[r.tip_idx] IN
    next_tip([r EXCEPT !.tips[r.tip_idx].mode = I_Skip,
                       !.previous_tip =
                           Some([tree |-> Unwrap(r.previous_tip).tree,
                                 sidx |-> t.sidx])])

\* lines 204-208: ignore this stack, continue with the others
non_hero_conflict(r) == next_tip([r EXCEPT !.tips[r.tip_idx].mode = I_Skip])

\* An own side that is the tree of the previous tip.
our_tree_previous_tip(r) == Unwrap(r.previous_tip).tree

\* line 179: merge_tree_id.unwrap_or(prev_tree_id)
our_tree(r) ==
    IF IsSome(r.merge_tree_id)
    THEN Unwrap(r.merge_tree_id) ELSE Unwrap(r.previous_tip).tree

\* A left side that is the position of the previous tip.
lowest_base_previous_tip(r) == Unwrap(r.previous_tip).sidx

\* line 173: prev_base_sidx.unwrap_or(prev_sidx)
lowest_base(r) ==
    IF IsSome(r.prev_base_sidx)
    THEN Unwrap(r.prev_base_sidx) ELSE Unwrap(r.previous_tip).sidx

\* lines 167-287: an active tip that has a tip in front of it
merge_tip(r, g, hero) ==
    LET t == r.tips[r.tip_idx]
        prev == Unwrap(r.previous_tip)
        left == lowest_base(r)
        base == compute_merge_base(g, left, t.sidx)
    IN  IF ~IsSome(base)
        THEN Bail(r, merge_base_error(g, left, t.sidx))
        ELSE
        LET merge == merge_trees(
                         Unwrap(base).tree,
                         our_tree(r),
                         peel_to_tree(g, t.commit_id))
            base_sidx == Unwrap(base).sidx
            counted == [r EXCEPT !.hist.merges = @ + 1]
        IN  IF merge.has_unresolved_conflicts
            THEN IF t.mode.tag = "MergeTrial"
                 THEN Bail(counted, "BUG: Found ref in merge-trial")
                 ELSE IF is_hero(hero, t.ref_name)
                 THEN hero_conflict(counted)
                 ELSE non_hero_conflict(counted)
            ELSE IF is_hero(hero, t.ref_name)
            THEN hero_merged(counted, g, merge.tree, base_sidx)
            ELSE IF t.mode.tag = "MergeTrial"
            THEN merge_trial(counted, g, merge.tree, base_sidx)
            ELSE adopt(counted, g, merge.tree, base_sidx)

\* A fold that builds both lists back to front.
RECURSIVE classify_reversed(_)
classify_reversed(ts) ==
    IF ts = <<>> THEN [stacks |-> <<>>, conflicting_stacks |-> <<>>]
    ELSE LET t == Head(ts)
             rest == classify_reversed(Tail(ts))
         IN  IF should_skip(t.mode)
             THEN [rest EXCEPT !.conflicting_stacks =
                     Append(@, [tip |-> t.commit_id, ref_name |-> t.ref_name])]
             ELSE [rest EXCEPT !.stacks =
                     Append(@, [tip |-> t.commit_id,
                                name |-> Some(shorten(t.ref_name))])]

\* A fold that lists the conflicting stacks from the last to the first.
RECURSIVE classify_conflicts_backwards(_)
classify_conflicts_backwards(ts) ==
    IF ts = <<>> THEN [stacks |-> <<>>, conflicting_stacks |-> <<>>]
    ELSE LET t == Head(ts)
             rest == classify_conflicts_backwards(Tail(ts))
         IN  IF should_skip(t.mode)
             THEN [rest EXCEPT !.conflicting_stacks =
                     Append(@, [tip |-> t.commit_id, ref_name |-> t.ref_name])]
             ELSE [rest EXCEPT !.stacks =
                     <<[tip |-> t.commit_id,
                        name |-> Some(shorten(t.ref_name))]>> \o @]

\* lines 290-306: the fold of tips into stacks and conflicting_stacks
RECURSIVE classify(_)
classify(ts) ==
    IF ts = <<>> THEN [stacks |-> <<>>, conflicting_stacks |-> <<>>]
    ELSE LET t == Head(ts)
             rest == classify(Tail(ts))
         IN  IF should_skip(t.mode)
             THEN [rest EXCEPT !.conflicting_stacks =
                     <<[tip |-> t.commit_id, ref_name |-> t.ref_name]>> \o @]
             ELSE [rest EXCEPT !.stacks =
                     <<[tip |-> t.commit_id,
                        name |-> Some(shorten(t.ref_name))]>> \o @]

\* lines 308-312
nothing_to_merge(sts) == sts = <<>>

\* An end of pass that reports the missing stacks only on odd times.
finish_by_the_clock(r, env) ==
    LET c == classify(r.tips) IN
    IF nothing_to_merge(c.stacks)
    THEN Bail(r, "BUG: Cannot merge nothing")
    ELSE LET ws_commit ==
                 fixup_times([new_from_stacks(c.stacks, env)
                                 EXCEPT !.tree = IF IsSome(r.merge_tree_id)
                                                    THEN r.merge_tree_id
                                                    ELSE Some(Unwrap(r.previous_tip).tree)],
                             env)
         IN  [r EXCEPT
                !.pc = "done",
                !.odb = Append(@, ws_commit),
                !.outcome = Some(
                   [workspace_commit_id |-> Len(r.odb) + 1,
                    stacks |-> c.stacks,
                    missing_stacks |-> IF ws_commit.time = 2 THEN <<>>
                                       ELSE r.missing_stacks,
                    conflicting_stacks |-> c.conflicting_stacks])]

\* An end of pass that writes the commit before it looks at the stacks.
finish_writes_first(r, env) ==
    LET c == classify(r.tips)
        tree == IF IsSome(r.merge_tree_id) THEN r.merge_tree_id
                ELSE IF IsSome(r.previous_tip)
                     THEN Some(Unwrap(r.previous_tip).tree) ELSE None
        ws_commit == fixup_times([new_from_stacks(c.stacks, env)
                                     EXCEPT !.tree = tree], env)
        written == [r EXCEPT !.odb = Append(@, ws_commit)]
    IN  IF nothing_to_merge(c.stacks)
        THEN Bail(written, "BUG: Cannot merge nothing")
        ELSE [written EXCEPT
                !.pc = "done",
                !.outcome = Some(
                   [workspace_commit_id |-> Len(r.odb) + 1,
                    stacks |-> c.stacks,
                    missing_stacks |-> r.missing_stacks,
                    conflicting_stacks |-> c.conflicting_stacks])]

\* An end of pass that takes the tree of the previous tip, merged or not.
finish_tree_of_previous_tip(r, env) ==
    LET c == classify(r.tips) IN
    IF nothing_to_merge(c.stacks)
    THEN Bail(r, "BUG: Cannot merge nothing")
    ELSE LET ws_commit ==
                 fixup_times([new_from_stacks(c.stacks, env)
                                 EXCEPT !.tree = Some(Unwrap(r.previous_tip).tree)],
                             env)
         IN  [r EXCEPT
                !.pc = "done",
                !.odb = Append(@, ws_commit),
                !.outcome = Some(
                   [workspace_commit_id |-> Len(r.odb) + 1,
                    stacks |-> c.stacks,
                    missing_stacks |-> r.missing_stacks,
                    conflicting_stacks |-> c.conflicting_stacks])]

\* lines 290-333: the end of a pass that was not restarted
finish(r, env) ==
    LET c == classify(r.tips) IN
    IF nothing_to_merge(c.stacks)
    THEN Bail(r, "BUG: Cannot merge nothing")
    ELSE LET tree == IF IsSome(r.merge_tree_id) THEN r.merge_tree_id
                     ELSE IF IsSome(r.previous_tip)
                          THEN Some(Unwrap(r.previous_tip).tree)
                          ELSE None
         IN  IF ~IsSome(tree)
             THEN Bail(r, "having stacks means the loop ran once")
             ELSE LET ws_commit ==
                         fixup_times([new_from_stacks(c.stacks, env)
                                         EXCEPT !.tree = tree], env)
                  IN  [r EXCEPT
                         !.pc = "done",
                         !.odb = Append(@, ws_commit),
                         !.outcome = Some(
                            [workspace_commit_id |-> Len(r.odb) + 1,
                             stacks |-> c.stacks,
                             missing_stacks |-> r.missing_stacks,
                             conflicting_stacks |-> c.conflicting_stacks])]

\* lines 392-403: the Stack of a projected stack, or None if it has no
\* commit to serve as tip
RECURSIVE stacks_of_workspace(_)
stacks_of_workspace(sts) ==
    IF sts = <<>> THEN Some(<<>>)
    ELSE LET s == Head(sts)
             rest == stacks_of_workspace(Tail(sts))
         IN  IF ~IsSome(s.tip) \/ ~IsSome(rest) THEN None
             ELSE Some(<<[tip |-> Unwrap(s.tip),
                          name |-> IF IsSome(s.ref_name)
                                      THEN Some(shorten(Unwrap(s.ref_name)))
                                      ELSE None]>> \o Unwrap(rest))

\* WorkspaceCommit::from_graph_workspace (lines 386-413)
from_graph_workspace(r, ws, env) ==
    LET sts == stacks_of_workspace(ws.stacks) IN
    IF ~IsSome(sts)
    THEN Bail(r, "Could not find any commit to serve as tip")
    ELSE LET ws_commit ==
                 fixup_times([new_from_stacks(Unwrap(sts), env)
                                 EXCEPT !.tree = Some(ws.tree)], env)
         IN  [r EXCEPT !.pc = "written", !.odb = Append(@, ws_commit)]

----------------------------------------------------------------------------
\* The input.

Relations == {"Merged", "UnmergedTree", "Outside"}

\* A stack of the input: whether it has a branch, its relation, and what the
\* graph holds for the ref of its top branch: nothing, or a segment whose tip
\* commit has some tree. The tree of a stack that is never merged is never
\* read and is left at the base tree; the relation of a stack without a
\* branch is never read, so one relation stands for all.
StackInputs ==
    {[named |-> TRUE, relation |-> "Merged", resolved |-> TRUE, tree |-> t] :
        t \in Trees}
    \cup {[named |-> TRUE, relation |-> "Merged", resolved |-> FALSE, tree |-> BaseTree],
          [named |-> TRUE, relation |-> "Outside", resolved |-> TRUE, tree |-> BaseTree],
          [named |-> TRUE, relation |-> "Outside", resolved |-> FALSE, tree |-> BaseTree],
          [named |-> TRUE, relation |-> "UnmergedTree", resolved |-> TRUE, tree |-> BaseTree],
          [named |-> FALSE, relation |-> "UnmergedTree", resolved |-> FALSE, tree |-> BaseTree]}

\* The WorkspaceStack of input i: the ref names of its branches and its
\* relation.
WorkspaceStack(i, k) ==
    [branches |-> IF k.named THEN <<FullName(i)>> ELSE <<>>,
     relation |-> k.relation]

\* The graph in which every resolved stack i is segment i with commit i, all
\* forked from the root segment.
FlatGraph(n, k) ==
    LET segs == {i \in 1..n : k[i].resolved} IN
    [refs |-> [rn \in {FullName(i) : i \in 1..n} |->
                 IF k[shorten(rn)].resolved
                    THEN Some([segment |-> shorten(rn),
                               commit |-> CommitId(shorten(rn))])
                    ELSE None],
     parent |-> [s \in segs \cup {RootSegment} |->
                   IF s = RootSegment THEN None ELSE Some(RootSegment)],
     commit |-> [s \in segs \cup {RootSegment} |-> Some(CommitId(s))],
     tree |-> [c \in {CommitId(s) : s \in segs \cup {RootSegment}} |->
                 IF c = CommitId(RootSegment) THEN BaseTree ELSE k[c[2]].tree]]

\* No invocation of `but commit` is under way.
NoCommand == [pc |-> "none"]

\* The workspace of a call that is not from_graph_workspace.
NoWorkspace == [stacks |-> <<>>, tree |-> BaseTree]

Init ==
    /\ \E n \in 0..MaxStacks :
         \E k \in [1..n -> StackInputs] :
            /\ stacks = [i \in 1..n |-> WorkspaceStack(i, k[i])]
            /\ graph = FlatGraph(n, k)
            /\ hero_stack \in {None} \cup {Some(FullName(i)) : i \in 1..n}
    /\ workspace = NoWorkspace
    /\ command = NoCommand
    /\ Assign0(Fresh)

\* The graphs in which a stack forks from the root segment or sits on top of
\* an earlier stack: par[i] is the segment below segment i.
StackedGraph(n, k, par) ==
    [FlatGraph(n, k) EXCEPT
        !.parent = [s \in 0..n |-> IF s = RootSegment THEN None ELSE Some(par[s])]]

\* The graphs in which a stack forks from the root segment or has no segment
\* below it, and in which the root segment has a commit or none.
SeveredGraph(n, k, forked, root_commit) ==
    [FlatGraph(n, k) EXCEPT
        !.parent = [s \in 0..n |-> IF s # RootSegment /\ forked[s]
                                      THEN Some(RootSegment) ELSE None],
        !.commit[RootSegment] = root_commit]

\* Resolvable Merged stacks that leave file "g" alone.
SeveredInputs ==
    {[named |-> TRUE, relation |-> "Merged", resolved |-> TRUE, tree |-> t] :
        t \in {u \in Trees : u["g"] = "base"}}

InitSevered ==
    /\ \E n \in 0..MaxStacks :
         \E k \in [1..n -> SeveredInputs] :
            \E forked \in [1..n -> BOOLEAN] :
               \E root_commit \in {None, Some(CommitId(RootSegment))} :
                  /\ stacks = [i \in 1..n |-> WorkspaceStack(i, k[i])]
                  /\ graph = SeveredGraph(n, k, forked, root_commit)
                  /\ hero_stack \in {None} \cup {Some(FullName(i)) : i \in 1..n}
    /\ workspace = NoWorkspace
    /\ command = NoCommand
    /\ Assign0(Fresh)

\* Resolvable Merged stacks; file "g" is left alone or set to content "x".
StackedInputs ==
    {[named |-> TRUE, relation |-> "Merged", resolved |-> TRUE, tree |-> t] :
        t \in {u \in Trees : u["g"] \in {"base", "x"}}}

\* Stack i sits on the root or on another stack: on an earlier one in every
\* case, or (in the lists shorter than MaxStacks) on a later one in every
\* case.
InitStacked ==
    /\ \E n \in 0..MaxStacks :
         \E k \in [1..n -> StackedInputs] :
            \E par \in [1..n -> 0..MaxStacks] :
               /\ \/ \A i \in 1..n : par[i] < i
                  \/ /\ n < MaxStacks
                     /\ \A i \in 1..n : par[i] = 0 \/ (i < par[i] /\ par[i] <= n)
               /\ stacks = [i \in 1..n |-> WorkspaceStack(i, k[i])]
               /\ graph = StackedGraph(n, k, par)
               /\ hero_stack \in {None} \cup {Some(FullName(i)) : i \in 1..n}
    /\ workspace = NoWorkspace
    /\ command = NoCommand
    /\ Assign0(Fresh)

\* The stacks of a but_graph::projection::Workspace: stack i has no ref name,
\* the name i or a name that is not UTF-8, and a commit to serve as its tip
\* or none.
ProjectedKinds == [name : {"none", "utf8", "bytes"}, tip : BOOLEAN]

ProjectedStack(i, k) ==
    [ref_name |-> CASE k.name = "none" -> None
                    [] k.name = "utf8" -> Some(FullName(i))
                    [] k.name = "bytes" -> Some(FullName(0 - i)),
     tip |-> IF k.tip THEN Some(CommitId(i)) ELSE None]

\* The messages of the commits a repository holds that new_from_stacks did
\* not make: no message, a message of one line, a message that quotes the
\* title further down, and a message a user gave the title.
OtherMessages ==
    {<<>>,
     <<Line("Merge branch", None)>>,
     <<Line("Revert", None), Line(GITBUTLER_WORKSPACE_COMMIT_TITLE, None)>>,
     <<Line(GITBUTLER_WORKSPACE_COMMIT_TITLE, None), Line("by hand", None)>>}

OtherCommit(message) ==
    [tree |-> Some(BaseTree), parents |-> <<>>, time |-> 1, message |-> message]

\* The repository holds no commit or one that new_from_stacks did not make.
InitWorkspace ==
    /\ stacks = <<>> /\ hero_stack = None /\ graph = FlatGraph(0, <<>>)
    /\ command = NoCommand
    /\ \E n \in 0..MaxStacks :
         \E k \in [1..n -> ProjectedKinds] :
            \E tree \in Trees :
               workspace = [stacks |-> [i \in 1..n |-> ProjectedStack(i, k[i])],
                            tree |-> tree]
    /\ \E objects \in {<<>>} \cup {<<OtherCommit(m)>> : m \in OtherMessages} :
         Assign0([Fresh EXCEPT !.odb = objects])

----------------------------------------------------------------------------
\* The steps of one call.

at_start(r) == r.pc = "start"
at_tip(r) == r.pc = "loop" /\ r.tip_idx <= Len(r.tips)
at_skipped_tip(r) == at_tip(r) /\ should_skip(r.tips[r.tip_idx].mode)
at_first_tip(r) ==
    at_tip(r) /\ ~should_skip(r.tips[r.tip_idx].mode) /\ ~IsSome(r.previous_tip)
at_merge_tip(r) ==
    at_tip(r) /\ ~should_skip(r.tips[r.tip_idx].mode) /\ IsSome(r.previous_tip)
at_end_of_pass(r) == r.pc = "loop" /\ r.tip_idx > Len(r.tips)

Preprocess ==
    /\ at_start(Cur)
    /\ Assign(preprocess(Cur, graph, stacks))
    /\ UNCHANGED <<input, command>>

SkipTip ==
    /\ at_skipped_tip(Cur)
    /\ Assign(skip_tip(Cur))
    /\ UNCHANGED <<input, command>>

FirstTip ==
    /\ at_first_tip(Cur)
    /\ Assign(first_tip(Cur, graph))
    /\ UNCHANGED <<input, command>>

MergeTip ==
    /\ at_merge_tip(Cur)
    /\ Assign(merge_tip(Cur, graph, hero_stack))
    /\ UNCHANGED <<input, command>>

Finish ==
    /\ at_end_of_pass(Cur)
    /\ \E env \in Envs : Assign(finish(Cur, env))
    /\ UNCHANGED <<input, command>>

Next == Preprocess \/ SkipTip \/ FirstTip \/ MergeTip \/ Finish

Spec == Init /\ [][Next]_vars

\* The same call on the graphs with stacked stacks.
SpecStacked == InitStacked /\ [][Next]_vars

\* The same call on the graphs in which a merge-base lookup can fail.
SpecSevered == InitSevered /\ [][Next]_vars

\* One call of from_graph_workspace.
FromGraphWorkspace ==
    /\ at_start(Cur)
    /\ \E env \in Envs : Assign(from_graph_workspace(Cur, workspace, env))
    /\ UNCHANGED <<input, command>>

SpecWorkspace == InitWorkspace /\ [][FromGraphWorkspace]_vars

\* The whole call as a function of its input: the steps above, taken until
\* the call returns.
step(r, g, hero, sts, env) ==
    IF at_start(r) THEN preprocess(r, g, sts)
    ELSE IF at_skipped_tip(r) THEN skip_tip(r)
    ELSE IF at_first_tip(r) THEN first_tip(r, g)
    ELSE IF at_merge_tip(r) THEN merge_tip(r, g, hero)
    ELSE finish(r, env)

RECURSIVE from_new_merge_with_metadata(_, _, _, _, _)
from_new_merge_with_metadata(r, g, hero, sts, env) ==
    IF r.pc \in {"done", "error"} THEN r
    ELSE from_new_merge_with_metadata(step(r, g, hero, sts, env), g, hero, sts, env)

----------------------------------------------------------------------------
\* Vocabulary of the properties.

\* Outcome::has_conflicts
has_conflicts(o) == o.conflicting_stacks # <<>>

Done == pc = "done"
Failed == pc = "error"
Out == Unwrap(outcome)
WorkspaceCommitOf(o) == odb[o.workspace_commit_id]

Range(sq) == {sq[i] : i \in 1..Len(sq)}
\* The input stacks that have a branch, and the ref name of their top branch.
Named == {i \in 1..Len(stacks) : has_branch(stacks[i])}
RefName(i) == top_segment(stacks[i])
\* The input stacks tagged Merged (that have a ref name).
MergedInput == {i \in Named : stacks[i].relation = "Merged"}
Resolves(ref_name) == IsSome(segment_and_commit_by_ref_name(graph, ref_name))

StackNames(o) == {Unwrap(s.name) : s \in Range(o.stacks)}
ConflictingNames(o) == {shorten(c.ref_name) : c \in Range(o.conflicting_stacks)}
MissingNames(o) == {shorten(m) : m \in Range(o.missing_stacks)}

\* The filter_map has run and did not panic.
Preprocessed ==
    \/ pc \in {"loop", "done"}
    \/ Failed /\ Unwrap(err) # "todo: UnmergedTree"

TipOf(ref_name) == {i \in 1..Len(tips) : tips[i].ref_name = ref_name}

----------------------------------------------------------------------------
\* C1: whenever the call returns success, Outcome.stacks is not empty and
\* the workspace commit that was written has at least one parent.
C1_StacksNonEmpty ==
    Done => /\ Out.stacks # <<>>
            /\ Len(WorkspaceCommitOf(Out).parents) >= 1

\* A successful run in which some stack conflicted.
C1_Witness == Done /\ Out.conflicting_stacks # <<>> /\ Out.stacks # <<>>

\* C2 as stated: if the ref of the hero resolves in the graph, the hero is a
\* tip with instruction Merge in every state of the run after preprocessing,
\* and on success it is in Outcome.stacks and not in conflicting_stacks.
C2_HeroResolvesMerged ==
    (IsSome(hero_stack) /\ Resolves(Unwrap(hero_stack))) =>
        /\ Preprocessed =>
             /\ TipOf(Unwrap(hero_stack)) # {}
             /\ \A i \in TipOf(Unwrap(hero_stack)) : tips[i].mode = I_Merge
        /\ Done =>
             /\ shorten(Unwrap(hero_stack)) \in StackNames(Out)
             /\ shorten(Unwrap(hero_stack)) \notin ConflictingNames(Out)

\* The hero is an input stack tagged Merged whose ref resolves.
HeroIsCandidate ==
    /\ IsSome(hero_stack)
    /\ Resolves(Unwrap(hero_stack))
    /\ \E i \in MergedInput : RefName(i) = Unwrap(hero_stack)

\* C2 (amended): if the hero is an input stack tagged Merged whose ref
\* resolves, its instruction is Merge in every state of the run, and on
\* success it is in Outcome.stacks and not in conflicting_stacks.
C2_HeroAlwaysMerged ==
    HeroIsCandidate =>
        /\ Preprocessed =>
             /\ TipOf(Unwrap(hero_stack)) # {}
             /\ \A i \in TipOf(Unwrap(hero_stack)) : tips[i].mode = I_Merge
        /\ Done =>
             /\ shorten(Unwrap(hero_stack)) \in StackNames(Out)
             /\ shorten(Unwrap(hero_stack)) \notin ConflictingNames(Out)

\* A successful run in which the hero conflicted and a stack in front of it
\* was skipped for it.
C2_Witness ==
    /\ HeroIsCandidate /\ Done /\ hist.hero_restarts >= 1
    /\ shorten(Unwrap(hero_stack)) \in StackNames(Out)

\* C3: on success the ref names of stacks, conflicting_stacks and
\* missing_stacks together are exactly the ref names of the input stacks
\* tagged Merged.
C3_BucketsCoverMergedInput ==
    Done =>
        StackNames(Out) \cup ConflictingNames(Out) \cup MissingNames(Out)
            = {shorten(RefName(i)) : i \in MergedInput}

\* A successful run with a merged, a conflicting, a missing and an Outside
\* stack.
C3_Witness ==
    /\ Done
    /\ Out.stacks # <<>> /\ Out.conflicting_stacks # <<>>
    /\ Out.missing_stacks # <<>>
    /\ \E i \in Named : stacks[i].relation = "Outside"

\* The input has a stack tagged Merged whose ref resolves, and no stack
\* tagged UnmergedTree.
HasCandidate ==
    /\ \E i \in MergedInput : Resolves(RefName(i))
    /\ \A i \in Named : stacks[i].relation # "UnmergedTree"

\* C4: with at least one resolvable Merged stack (merge_trees is a function
\* and every merge-base lookup succeeds in this graph) the call never fails:
\* conflicts are reported in conflicting_stacks.
C4_NeverFails == HasCandidate => ~Failed

\* C5: the attribution restart (a restart taken after a candidate was newly
\* tagged MergeTrial) happens at most once in a run, and exactly when
\* ran_merge_trials_loop_safety is set; a run that fails on the second
\* attempt returns no Outcome and writes nothing.
C5_AtMostOneAttributionRestart ==
    /\ hist.trial_restarts <= 1
    /\ ran_merge_trials_loop_safety <=> hist.trial_restarts = 1
    /\ (Failed /\ Unwrap(err) = "BUG: somehow we managed to try to run merge-trials twice")
          => outcome = None /\ odb = <<>>

\* A successful run that took the attribution restart and resolved a
\* merge-trial to Merge.
C5_Witness ==
    /\ Done /\ hist.trial_restarts = 1
    /\ Len(Out.stacks) >= 3 /\ Out.conflicting_stacks # <<>>

ActiveCount == Cardinality({i \in 1..Len(tips) : ~should_skip(tips[i].mode)})

\* A measure of the work a run has left: the attribution restart not yet
\* taken, then the tips still allowed, then the tips left in the pass.
Variant ==
    LET K == Len(stacks) + 2 IN
    CASE pc \in {"done", "error"} -> 0
      [] pc = "start" -> 2 * K * K + 1
      [] pc = "loop" ->
           1 + (Len(tips) + 1 - tip_idx) + K * ActiveCount
             + K * K * (IF ran_merge_trials_loop_safety THEN 0 ELSE 1)

\* A run that has not returned can take a step.
CanStep ==
    \/ Done \/ Failed
    \/ at_start(Cur) \/ at_skipped_tip(Cur) \/ at_first_tip(Cur)
    \/ at_merge_tip(Cur) \/ at_end_of_pass(Cur)

\* C6: every run terminates: every step decreases Variant, a natural number,
\* and leads to a state that has returned or can take a step; and the number
\* of hero-conflict restarts never exceeds the number of candidates.
C6_Terminates ==
    [][/\ Variant' < Variant
       /\ Variant' >= 0
       /\ CanStep'
       /\ hist'.hero_restarts <= Len(tips')]_vars

\* A successful run that restarted twice for a conflicting hero.
C6_Witness == Done /\ hist.hero_restarts >= 2

\* The tree and the segment of a tip, by ref name.
TipByName(ref_name) == tips[CHOOSE i \in 1..Len(tips) : tips[i].ref_name = ref_name]

\* Merging conflicting stack c into the tree of the workspace commit, with
\* the merge base the engine would use for one more tip, conflicts.
GenuinelyConflicts(c) ==
    LET left == IF IsSome(prev_base_sidx)
                   THEN Unwrap(prev_base_sidx) ELSE Unwrap(previous_tip).sidx
        base == compute_merge_base(graph, left, TipByName(c.ref_name).sidx)
    IN  merge_trees(Unwrap(base).tree,
                    Unwrap(WorkspaceCommitOf(Out).tree),
                    peel_to_tree(graph, c.tip)).has_unresolved_conflicts

\* C7: on success with a hero, every stack in conflicting_stacks conflicts
\* with the final merged tree of Outcome.stacks.
C7_PreciseAttribution ==
    (Done /\ HeroIsCandidate) =>
        \A c \in Range(Out.conflicting_stacks) : GenuinelyConflicts(c)

\* The input is n stacks, all tagged Merged and all resolvable.
AllCandidates(n) ==
    /\ Len(stacks) = n
    /\ \A i \in 1..n : i \in MergedInput /\ Resolves(RefName(i))

InputTree(i) ==
    peel_to_tree(graph, Unwrap(segment_and_commit_by_ref_name(graph, FullName(i))).commit)
InputSegment(i) ==
    Unwrap(segment_and_commit_by_ref_name(graph, FullName(i))).segment

\* The merge of the trees of stacks i and j alone, with their merge base.
PairMerge(i, j) ==
    merge_trees(Unwrap(compute_merge_base(graph, InputSegment(i), InputSegment(j))).tree,
                InputTree(i), InputTree(j))
PairConflict(i, j) == PairMerge(i, j).has_unresolved_conflicts

NamesOf(sts) == [i \in 1..Len(sts) |-> Unwrap(sts[i].name)]
ConflictingNamesOf(cs) == [i \in 1..Len(cs) |-> shorten(cs[i].ref_name)]

\* Scenario B: [G1, C, G2, H] with hero H; C conflicts with G1, G2 conflicts
\* with neither G1 nor H, and H merges cleanly with G1.
ScenarioB ==
    /\ AllCandidates(4)
    /\ hero_stack = Some(FullName(4))
    /\ PairConflict(1, 2)
    /\ ~PairConflict(1, 3) /\ ~PairConflict(3, 4) /\ ~PairConflict(1, 4)

\* C8: in scenario B the run does not fail and ends with
\* Outcome.stacks = [G1, G2, H] and conflicting_stacks = [C].
C8_ScenarioB ==
    ScenarioB =>
        /\ ~Failed
        /\ Done => /\ NamesOf(Out.stacks) = <<1, 3, 4>>
                   /\ ConflictingNamesOf(Out.conflicting_stacks) = <<2>>

\* Scenario A: [X, Y, Z] with hero Z; Y conflicts with X and Z merges cleanly
\* with X.
ScenarioA ==
    /\ AllCandidates(3)
    /\ hero_stack = Some(FullName(3))
    /\ PairConflict(1, 2)
    /\ ~PairConflict(1, 3)

\* C9: in scenario A the run does not fail and ends with
\* Outcome.stacks = [X, Z], conflicting_stacks = [Y] and the tree that is the
\* merge of X and Z.
C9_ScenarioA ==
    ScenarioA =>
        /\ ~Failed
        /\ Done => /\ NamesOf(Out.stacks) = <<1, 3>>
                   /\ ConflictingNamesOf(Out.conflicting_stacks) = <<2>>
                   /\ WorkspaceCommitOf(Out).tree = Some(PairMerge(1, 3).tree)

\* Scenario A has run to its end, and the merged tree is neither X's nor Z's.
C9_Witness ==
    /\ ScenarioA /\ Done
    /\ PairMerge(1, 3).tree \notin {InputTree(1), InputTree(3)}

\* The input stacks tagged Merged whose ref does not resolve, and the input
\* without them.
MissingInput == {i \in MergedInput : ~Resolves(RefName(i))}
IsNotMissing(s) ==
    ~(has_branch(s) /\ s.relation = "Merged" /\ ~Resolves(top_segment(s)))
WithoutMissing == SelectSeq(stacks, IsNotMissing)

\* An environment that gives the time of the commit this run wrote.
EnvOfRun ==
    [date_var |-> None,
     now |-> IF odb = <<>> THEN 1 ELSE odb[1].time,
     committer_time |-> None]

\* The same call on the input without the missing stacks.
RunWithoutMissing ==
    from_new_merge_with_metadata(Fresh, graph, hero_stack, WithoutMissing, EnvOfRun)

\* C10: a Merged stack whose ref does not resolve is in missing_stacks and
\* in no other bucket, is no parent of the workspace commit, and the call
\* ends as the call on the input without the missing stacks ends: the same
\* error, or the same stacks, conflicting_stacks, tree and parents.
C10_MissingStacksAreInert ==
    (Done \/ Failed) =>
        LET ref == RunWithoutMissing IN
        /\ ref.pc = pc /\ ref.err = err
        /\ Done =>
             /\ \A i \in MissingInput :
                  /\ RefName(i) \in Range(Out.missing_stacks)
                  /\ shorten(RefName(i)) \notin StackNames(Out)
                  /\ shorten(RefName(i)) \notin ConflictingNames(Out)
             /\ Range(WorkspaceCommitOf(Out).parents)
                  \subseteq {CommitId(i) : i \in MergedInput \ MissingInput}
             /\ Unwrap(ref.outcome).stacks = Out.stacks
             /\ Unwrap(ref.outcome).conflicting_stacks = Out.conflicting_stacks
             /\ Unwrap(ref.outcome).missing_stacks = <<>>
             /\ ref.odb = odb

\* A successful run with a missing stack in front of stacks that merged
\* and a stack that conflicted.
C10_Witness ==
    /\ Done
    /\ 1 \in MissingInput
    /\ Len(Out.stacks) >= 2 /\ Out.conflicting_stacks # <<>>

----------------------------------------------------------------------------
\* The candidates: the input stacks tagged Merged whose ref resolves.
Candidates == {i \in MergedInput : Resolves(RefName(i))}

\* The filter_map meets a stack tagged UnmergedTree.
MeetsUnmergedTree == \E i \in Named : stacks[i].relation = "UnmergedTree"

\* C11: if no stack is left after dropping the Outside stacks and the
\* unresolvable refs (the empty input included), the call returns no Outcome
\* and writes nothing; it has no tip to visit and ends with an error.
C11_NothingToMergeFails ==
    Candidates = {} =>
        /\ ~Done /\ outcome = None /\ odb = <<>>
        /\ pc = "loop" => tips = <<>> /\ at_end_of_pass(Cur)
        /\ Failed => Unwrap(err) \in {"BUG: Cannot merge nothing", "todo: UnmergedTree"}

\* A call that failed for an input of an Outside stack whose ref resolves
\* and a Merged stack whose ref does not.
C11_Witness ==
    /\ Failed /\ Unwrap(err) = "BUG: Cannot merge nothing"
    /\ Candidates = {}
    /\ \E i \in Named : stacks[i].relation = "Outside" /\ Resolves(RefName(i))
    /\ MissingInput # {}

\* The only candidate of an input that has exactly one.
OnlyCandidate == CHOOSE i \in Candidates : TRUE

\* C12: with exactly one candidate (and no UnmergedTree stack to stop the
\* filter_map), merge_trees is never called, the call does not fail and
\* takes one pass, and on success Outcome.stacks is that stack alone and the
\* workspace commit has its tip as only parent and its tree as tree.
C12_SingleStackNoMerge ==
    (Cardinality(Candidates) = 1 /\ ~MeetsUnmergedTree) =>
        /\ hist.merges = 0
        /\ ~Failed /\ hist.passes <= 1
        /\ Done =>
             /\ Out.stacks = <<[tip |-> CommitId(OnlyCandidate),
                                name |-> Some(OnlyCandidate)]>>
             /\ Out.conflicting_stacks = <<>>
             /\ WorkspaceCommitOf(Out).parents = <<CommitId(OnlyCandidate)>>
             /\ WorkspaceCommitOf(Out).tree = Some(InputTree(OnlyCandidate))

\* A successful call with one candidate, which is the hero and changes a
\* file, among other stacks.
C12_Witness ==
    /\ Done /\ Cardinality(Candidates) = 1
    /\ Len(stacks) >= 3
    /\ hero_stack = Some(RefName(OnlyCandidate))
    /\ InputTree(OnlyCandidate) # BaseTree

----------------------------------------------------------------------------
\* C13: when no hero is given, or the hero names no candidate, no restart
\* happens: the run is one pass, the attribution restart is never taken and
\* every tip is tagged Merge or Skip in every state.
C13_NoHeroNoRestart ==
    ~HeroIsCandidate =>
        /\ hist.passes <= 1
        /\ hist.hero_restarts = 0 /\ hist.trial_restarts = 0
        /\ ~ran_merge_trials_loop_safety
        /\ \A i \in 1..Len(tips) : tips[i].mode \in {I_Merge, I_Skip}
        /\ Done => hist.passes = 1

\* A successful call without a hero in which two stacks conflicted.
C13_Witness ==
    /\ Done /\ hero_stack = None
    /\ Len(Out.conflicting_stacks) >= 2 /\ Len(Out.stacks) >= 2

\* A second call with the arguments of this run.
SecondRun(env) ==
    from_new_merge_with_metadata(Fresh, graph, hero_stack, stacks, env)

\* The environments that leave the time of the commit to the clock.
Clocks == {env \in Envs : env.date_var = None /\ env.committer_time = None}

----------------------------------------------------------------------------
\* C15: on success the parents of the written commit are the tips of
\* Outcome.stacks, one for each and in the same order; every tip is the
\* commit the ref of its stack resolves to, and the stacks are in the order
\* of the input.
C15_ParentsAreStackTips ==
    Done =>
        /\ WorkspaceCommitOf(Out).parents
              = [i \in 1..Len(Out.stacks) |-> Out.stacks[i].tip]
        /\ \A i \in 1..Len(Out.stacks) :
              /\ Unwrap(Out.stacks[i].name) \in Candidates
              /\ Out.stacks[i].tip = CommitId(Unwrap(Out.stacks[i].name))
        /\ \A i, j \in 1..Len(Out.stacks) :
              i < j => Unwrap(Out.stacks[i].name) < Unwrap(Out.stacks[j].name)

\* A successful run with three parents, a conflicting stack between them
\* and a restart for the hero.
C15_Witness ==
    /\ Done /\ Len(WorkspaceCommitOf(Out).parents) >= 3
    /\ Out.conflicting_stacks # <<>>
    /\ \E c \in ConflictingNames(Out) : \E a, b \in StackNames(Out) : a < c /\ c < b

\* The merge of the trees of the stacks `names` from position i on into the
\* tree acc, each with the merge base of the base before it (`left`): None
\* if a merge conflicts or has no base.
RECURSIVE MergeOf(_, _, _, _)
MergeOf(names, i, acc, left) ==
    IF i > Len(names) THEN Some(acc)
    ELSE LET base == compute_merge_base(graph, left, InputSegment(names[i])) IN
         IF ~IsSome(base) THEN None
         ELSE LET m == merge_trees(Unwrap(base).tree, acc, InputTree(names[i])) IN
              IF m.has_unresolved_conflicts THEN None
              ELSE MergeOf(names, i + 1, m.tree, Unwrap(base).sidx)

\* C16: on success the tips whose trees make up the running tree are the
\* stacks of Outcome.stacks, in order, none of them is in conflicting_stacks,
\* and the tree of the written commit is the conflict-free merge of the
\* trees of Outcome.stacks.
C16_TreeIsMergeOfStacks ==
    Done =>
        LET names == NamesOf(Out.stacks) IN
        /\ hist.folded = names
        /\ Range(hist.folded) \cap ConflictingNames(Out) = {}
        /\ WorkspaceCommitOf(Out).tree
              = MergeOf(names, 2, InputTree(names[1]), InputSegment(names[1]))

\* A successful run in which a merge-trial merged cleanly and failed its
\* hero test, and two stacks made the tree.
C16_Witness ==
    /\ Done /\ hist.trial_restarts = 1
    /\ Len(Out.stacks) >= 2 /\ Len(Out.conflicting_stacks) >= 2
    /\ \E i \in 1..Len(tips) :
          /\ tips[i].mode = I_CertainConflict
          /\ i > 2
          /\ ~merge_trees(BaseTree, InputTree(shorten(tips[1].ref_name)),
                          peel_to_tree(graph, tips[i].commit_id)).has_unresolved_conflicts

----------------------------------------------------------------------------
OutsideInput == {i \in Named : stacks[i].relation = "Outside"}
IsNotOutside(s) == ~(has_branch(s) /\ s.relation = "Outside")
WithoutOutside == SelectSeq(stacks, IsNotOutside)

\* The same call on the input without the Outside stacks.
RunWithoutOutside ==
    from_new_merge_with_metadata(Fresh, graph, hero_stack, WithoutOutside, EnvOfRun)

\* C18: a stack tagged Outside is never a tip; on success its name is in
\* none of stacks, conflicting_stacks and missing_stacks, whether its ref
\* resolves or not, and its commit is no parent; and the call ends as the
\* call on the input without the Outside stacks ends, with the same error or
\* the same Outcome and commit.
C18_OutsideIsExcluded ==
    /\ \A i \in OutsideInput : TipOf(RefName(i)) = {}
    /\ (Done \/ Failed) =>
          LET ref == RunWithoutOutside IN
          /\ ref.pc = pc /\ ref.err = err
          /\ ref.outcome = outcome /\ ref.odb = odb
          /\ Done =>
               \A i \in OutsideInput :
                  /\ shorten(RefName(i)) \notin
                        StackNames(Out) \cup ConflictingNames(Out) \cup MissingNames(Out)
                  /\ CommitId(i) \notin Range(WorkspaceCommitOf(Out).parents)

\* A successful run with an Outside stack whose ref resolves, one whose ref
\* does not, a conflicting stack and a hero that is tagged Outside.
C18_Witness ==
    /\ Done
    /\ \E i, j \in OutsideInput :
          /\ Resolves(RefName(i)) /\ ~Resolves(RefName(j))
          /\ hero_stack = Some(RefName(i))
    /\ has_conflicts(Out)

----------------------------------------------------------------------------
\* from_graph_workspace has written its commit.
Written == pc = "written"

\* The stacks new_from_stacks was given, and the commit it made.
GivenStacks == Unwrap(stacks_of_workspace(workspace.stacks))
WrittenCommit == odb[Len(odb)]

IsBranchHead(line) == line.text = "   branch head: "
IsName(line) == line.text = " - "

\* The position in the message of the k-th 'branch head' line.
HeadPosition(msg, k) ==
    CHOOSE p \in 1..Len(msg) :
        /\ IsBranchHead(msg[p])
        /\ Cardinality({q \in 1..p : IsBranchHead(msg[q])}) = k

\* C20: the message of new_from_stacks begins with the title line; it has
\* one 'branch head' line for each stack, in the order of the stacks, which
\* is the order of the parents, with the stack's tip id; the line in front
\* of it is the ' - ' line with the name of the stack (as text) if the stack
\* has a name, and no ' - ' line if it has none; there is no other ' - '
\* line.
C20_MessageListsStacks ==
    Written =>
        LET msg == WrittenCommit.message
            heads == SelectSeq(msg, IsBranchHead)
        IN  /\ Head(msg) = Line(GITBUTLER_WORKSPACE_COMMIT_TITLE, None)
            /\ Len(heads) = Len(GivenStacks)
            /\ Len(WrittenCommit.parents) = Len(GivenStacks)
            /\ \A k \in 1..Len(GivenStacks) :
                  LET p == HeadPosition(msg, k) IN
                  /\ heads[k].arg = Some(to_hex(GivenStacks[k].tip))
                  /\ heads[k].arg = Some(to_hex(WrittenCommit.parents[k]))
                  /\ IsSome(GivenStacks[k].name) =>
                        msg[p - 1] = Line(" - ", Some(to_str_lossy(Unwrap(GivenStacks[k].name))))
                  /\ ~IsSome(GivenStacks[k].name) => ~IsName(msg[p - 1])
            /\ Len(SelectSeq(msg, IsName))
                  = Cardinality({k \in 1..Len(GivenStacks) : IsSome(GivenStacks[k].name)})

\* A written commit of three or more stacks: one without a name between two
\* with a name, one of the names not UTF-8.
C20_Witness ==
    /\ Written /\ Len(GivenStacks) >= 3
    /\ IsSome(GivenStacks[1].name) /\ ~IsSome(GivenStacks[2].name)
    /\ IsSome(GivenStacks[3].name) /\ Unwrap(GivenStacks[3].name) < 0

----------------------------------------------------------------------------
----------------------------------------------------------------------------
\* The position of the tip of a name, and the base a pass has adopted after
\* it took the tips of these names: the position of the first one while no
\* merge was adopted, then the lowest common ancestor of the base so far and
\* the position of the next.
PositionOf(name) == TipByName(FullName(name)).sidx

RECURSIVE BaseOfPrefix(_)
BaseOfPrefix(names) ==
    IF Len(names) = 1 THEN PositionOf(names[1])
    ELSE Unwrap(first_merge_base(graph,
                                 BaseOfPrefix(SubSeq(names, 1, Len(names) - 1)),
                                 PositionOf(names[Len(names)])))

\* The running tree of a pass.
RunningTree ==
    IF IsSome(merge_tree_id) THEN Unwrap(merge_tree_id)
    ELSE Unwrap(previous_tip).tree

\* A step that merges the tip at tip_idx, whether it adopts the merge, and
\* whether it goes on with the pass.
MergesTip == at_merge_tip(Cur) /\ hist'.merges > hist.merges
Adopts == hist'.passes = hist.passes /\ Len(hist'.folded) = Len(hist.folded) + 1
GoesOn == pc' = "loop" /\ hist'.passes = hist.passes

MergeBaseIsLowest ==
    MergesTip =>
        LET c == tips[tip_idx]
            L == BaseOfPrefix(hist.folded)
            base == Unwrap(first_merge_base(graph, L, c.sidx))
            merge == merge_trees(peel_to_tree(graph, Unwrap(tip_skip_empty(graph, base))),
                                 RunningTree,
                                 peel_to_tree(graph, c.commit_id))
        IN  /\ IsSome(prev_base_sidx) <=> Len(hist.folded) >= 2
            /\ IsSome(prev_base_sidx) => Unwrap(prev_base_sidx) = L
            /\ (GoesOn /\ Adopts) =>
                  /\ ~merge.has_unresolved_conflicts
                  /\ prev_base_sidx' = Some(base)
                  /\ merge_tree_id' = Some(merge.tree)
            /\ (GoesOn /\ ~Adopts) =>
                  /\ prev_base_sidx' = prev_base_sidx
                  /\ (merge.has_unresolved_conflicts
                        \/ tips'[tip_idx].mode = I_CertainConflict)
            /\ merge.has_unresolved_conflicts => ~Adopts

\* The base a pass has adopted is, when the next tip is merged, not the
\* position of the tip in front.
BaseIsNotPreviousTip ==
    (at_merge_tip(Cur) /\ IsSome(prev_base_sidx))
        => Unwrap(prev_base_sidx) # Unwrap(previous_tip).sidx

\* C22: in every pass the merge base used to merge an active candidate is
\* the lowest common ancestor of L and the candidate's position, where L is
\* the base adopted by the most recent clean merge of the pass, or the
\* position of the first active candidate while no merge was adopted; and
\* once a merge was adopted, L is never the position of the tip in front; a
\* candidate that conflicted or failed its hero test leaves L unchanged.
C22_LowestBaseNeverPreviousTip ==
    [][MergeBaseIsLowest /\ BaseIsNotPreviousTip]_vars

\* C22 (amended): the same, but once a merge was adopted L is the adopted
\* base whether or not that is the position of the tip in front.
C22_LowestBase == [][MergeBaseIsLowest]_vars

\* A third tip is about to be merged with an adopted base that is neither
\* the position of the tip in front nor the root.
C22_Witness ==
    /\ at_merge_tip(Cur) /\ Len(hist.folded) >= 2
    /\ Unwrap(prev_base_sidx) \notin {Unwrap(previous_tip).sidx, RootSegment}
    /\ first_merge_base(graph, Unwrap(prev_base_sidx), tips[tip_idx].sidx)
          # first_merge_base(graph, Unwrap(previous_tip).sidx, tips[tip_idx].sidx)

----------------------------------------------------------------------------
\* The merge of the tip at tip_idx into the running tree, as line 177 makes
\* it, and the tips whose instruction a step changes.
MergeOfTip ==
    merge_trees(
        Unwrap(compute_merge_base(graph, lowest_base(Cur), tips[tip_idx].sidx)).tree,
        RunningTree,
        peel_to_tree(graph, tips[tip_idx].commit_id))

AtHero == at_merge_tip(Cur) /\ is_hero(hero_stack, tips[tip_idx].ref_name)
HeroConflicts == AtHero /\ MergeOfTip.has_unresolved_conflicts
Active(mode) == mode.tag \in {"Merge", "MergeTrial"}
Retagged == {j \in 1..Len(tips) : tips'[j].mode # tips[j].mode}
RunningStateIsEmpty(r) ==
    r.prev_base_sidx = None /\ r.merge_tree_id = None /\ r.previous_tip = None

\* C23: when the merge of the hero conflicts, the step retags exactly one
\* candidate, the nearest active one in front of the hero, which becomes
\* Skip; it restarts the pass at the first tip with the running tree, the
\* running base and the previous tip empty; and every other instruction,
\* the Skips of non-hero conflicts of the aborted pass included, is as it
\* was.
C23_HeroConflictRestart ==
    [][HeroConflicts =>
         /\ \E j \in 1..(tip_idx - 1) :
               /\ Retagged = {j}
               /\ Active(tips[j].mode) /\ tips'[j].mode = I_Skip
               /\ \A k \in (j + 1)..(tip_idx - 1) : ~Active(tips[k].mode)
         /\ Len(tips') = Len(tips)
         /\ \A j \in 1..Len(tips) :
               /\ tips'[j].ref_name = tips[j].ref_name
               /\ tips'[j].commit_id = tips[j].commit_id
               /\ tips'[j].sidx = tips[j].sidx
         /\ pc' = "loop" /\ tip_idx' = 1 /\ RunningStateIsEmpty(Cur')
         /\ hist'.passes = hist.passes + 1]_vars

\* A pass restarted for a hero conflict for the first time, that carries
\* over the Skip of a non-hero conflict next to the Skip of the restart.
C23_Witness ==
    /\ pc = "loop" /\ tip_idx = 1 /\ hist.hero_restarts = 1
    /\ \E i, j, k \in 1..Len(tips) :
          /\ i < j /\ j < k
          /\ tips[i].mode = I_Merge
          /\ tips[j].mode = I_Skip /\ tips[k].mode = I_Skip

----------------------------------------------------------------------------
\* The active candidates in front of the hero.
HeroIndex == CHOOSE i \in 1..Len(tips) : is_hero(hero_stack, tips[i].ref_name)
ActiveBeforeHero(ts) ==
    Cardinality({j \in 1..(HeroIndex - 1) : Active(ts[j].mode)})
HeroIsTip == \E i \in 1..Len(tips) : is_hero(hero_stack, tips[i].ref_name)

\* C24: a candidate that a hero-conflict restart marked Skip is not active
\* in any later state of the run, and from one hero-conflict restart to the
\* next the number of active candidates in front of the hero decreases.
C24_DisallowedForGood ==
    /\ \A j \in hist.disallowed : ~Active(tips[j].mode)
    /\ (pc = "loop" /\ HeroIsTip) =>
          ActiveBeforeHero(tips) + hist.hero_restarts <= HeroIndex - 1

\* C24 (amended): a candidate that a hero-conflict restart marked Skip is
\* not active as long as the look-back of the hero has not restarted the pass
\* (the look-back makes every skipped candidate but the first a MergeTrial);
\* no hero-conflict restart follows the restart of the look-back, and up to
\* it every hero-conflict restart takes one from the number of active
\* candidates in front of the hero and no other step adds to it.
C24_DisallowedUntilLookBack ==
    [][/\ ~ran_merge_trials_loop_safety =>
             \A j \in hist.disallowed : ~Active(tips[j].mode)
       /\ ~ran_merge_trials_loop_safety' =>
             \A j \in hist'.disallowed : ~Active(tips'[j].mode)
       /\ HeroConflicts =>
             /\ ~ran_merge_trials_loop_safety
             /\ hist'.disallowed = hist.disallowed \cup Retagged
             /\ ActiveBeforeHero(tips') = ActiveBeforeHero(tips) - 1
       /\ (pc = "loop" /\ HeroIsTip /\ ~ran_merge_trials_loop_safety')
             => ActiveBeforeHero(tips') <= ActiveBeforeHero(tips)]_vars

\* The second hero-conflict restart of a run has just been made.
C24_Witness ==
    /\ pc = "loop" /\ tip_idx = 1 /\ hist.hero_restarts = 2
    /\ Cardinality(hist.disallowed) = 2 /\ ~ran_merge_trials_loop_safety
    /\ \A j \in hist.disallowed : tips[j].mode = I_Skip

----------------------------------------------------------------------------
NonHeroConflicts ==
    /\ at_merge_tip(Cur) /\ ~is_hero(hero_stack, tips[tip_idx].ref_name)
    /\ tips[tip_idx].mode = I_Merge
    /\ MergeOfTip.has_unresolved_conflicts

\* C25: when a candidate that is not the hero and is tagged Merge conflicts
\* with the running tree, the step changes the instruction of that candidate
\* alone, to Skip; the running tree, the running base and the previous tip
\* are what they were; and the pass goes on with the next candidate.
C25_NonHeroConflictIsIgnored ==
    [][NonHeroConflicts =>
         /\ Retagged = {tip_idx} /\ tips'[tip_idx].mode = I_Skip
         /\ Len(tips') = Len(tips)
         /\ \A j \in 1..Len(tips) :
               /\ tips'[j].ref_name = tips[j].ref_name
               /\ tips'[j].commit_id = tips[j].commit_id
               /\ tips'[j].sidx = tips[j].sidx
         /\ merge_tree_id' = merge_tree_id
         /\ prev_base_sidx' = prev_base_sidx
         /\ previous_tip' = previous_tip
         /\ ran_merge_trials_loop_safety' = ran_merge_trials_loop_safety
         /\ pc' = "loop" /\ tip_idx' = tip_idx + 1
         /\ hist'.passes = hist.passes /\ hist'.folded = hist.folded]_vars

\* In a pass that was never restarted the candidate in front has just been
\* skipped for its conflict with a running tree that is a merge, and a
\* candidate is left to be merged.
C25_Witness ==
    /\ at_merge_tip(Cur) /\ hist.passes = 1 /\ tip_idx > 1
    /\ tips[tip_idx - 1].mode = I_Skip
    /\ IsSome(merge_tree_id) /\ IsSome(prev_base_sidx)

----------------------------------------------------------------------------
\* The greedy selection over the candidates from input stack i on: the first
\* candidate is accepted, a later one is accepted if its tree merges without
\* conflict into the merge of the accepted ones, with the lowest common
\* ancestor of their base and its position as the merge base.
RECURSIVE Greedy(_, _)
Greedy(i, acc) ==
    IF i > Len(stacks) THEN acc
    ELSE IF i \notin Candidates THEN Greedy(i + 1, acc)
    ELSE IF acc.accepted = <<>>
    THEN Greedy(i + 1, [acc EXCEPT !.accepted = <<i>>,
                                   !.tree = Some(InputTree(i)),
                                   !.left = Some(InputSegment(i))])
    ELSE LET base == Unwrap(first_merge_base(graph, Unwrap(acc.left),
                                             InputSegment(i)))
             m == merge_trees(
                      peel_to_tree(graph, Unwrap(tip_skip_empty(graph, base))),
                      Unwrap(acc.tree), InputTree(i))
         IN  IF m.has_unresolved_conflicts
             THEN Greedy(i + 1, [acc EXCEPT !.rejected = Append(@, i)])
             ELSE Greedy(i + 1, [acc EXCEPT !.accepted = Append(@, i),
                                            !.tree = Some(m.tree),
                                            !.left = Some(base)])

GreedySelection ==
    Greedy(1, [accepted |-> <<>>, rejected |-> <<>>, tree |-> None, left |-> None])

NoHero == hero_stack = None

\* C26: with no hero the result is the greedy selection from left to right:
\* the call succeeds if there is a candidate, Outcome.stacks are the accepted
\* candidates, beginning with the first candidate, conflicting_stacks are all
\* the other candidates, and the tree is the merge of the accepted ones.
C26_NoHeroIsGreedy ==
    (NoHero /\ HasCandidate) =>
        /\ ~Failed
        /\ Done =>
             /\ NamesOf(Out.stacks) = GreedySelection.accepted
             /\ ConflictingNamesOf(Out.conflicting_stacks) = GreedySelection.rejected
             /\ Out.stacks[1].name = Some(CHOOSE i \in Candidates :
                                              \A j \in Candidates : i <= j)
             /\ StackNames(Out) \cup ConflictingNames(Out) = Candidates
             /\ WorkspaceCommitOf(Out).tree = GreedySelection.tree

\* Without a hero, the second candidate is rejected, the third is accepted,
\* and the fourth is rejected although it merges with the first candidate
\* alone.
C26_Witness ==
    /\ NoHero /\ Done /\ AllCandidates(4)
    /\ GreedySelection.accepted = <<1, 3>>
    /\ GreedySelection.rejected = <<2, 4>>
    /\ ~PairConflict(1, 4)

----------------------------------------------------------------------------
HeroMergesCleanly == AtHero /\ ~MergeOfTip.has_unresolved_conflicts
SkippedBeforeHero == {j \in 1..(tip_idx - 1) : tips[j].mode = I_Skip}
ExcludedBeforeHero == {j \in 1..(tip_idx - 1) : should_skip(tips[j].mode)}
FirstOf(S) == CHOOSE j \in S : \A k \in S : j <= k
TrialOfHero ==
    I_MergeTrial(tips[tip_idx].sidx, peel_to_tree(graph, tips[tip_idx].commit_id))

\* C27: when the hero merges cleanly and a candidate in front of it is
\* tagged Skip, the step leaves the first excluded candidate tagged
\* CertainConflict and every later skipped candidate in front of the hero
\* tagged MergeTrial with the position and the tree of the hero; it changes
\* no other instruction, and no candidate in front of the hero is tagged
\* Skip afterwards.
C27_LookBack ==
    [][(HeroMergesCleanly /\ SkippedBeforeHero # {}) =>
         /\ Len(tips') = Len(tips)
         /\ tips'[FirstOf(ExcludedBeforeHero)].mode = I_CertainConflict
         /\ \A j \in SkippedBeforeHero :
               j > FirstOf(ExcludedBeforeHero) => tips'[j].mode = TrialOfHero
         /\ \A j \in 1..Len(tips) :
               /\ j \notin SkippedBeforeHero => tips'[j].mode = tips[j].mode
               /\ tips'[j].ref_name = tips[j].ref_name
               /\ tips'[j].commit_id = tips[j].commit_id
               /\ tips'[j].sidx = tips[j].sidx
         /\ \A j \in 1..(tip_idx - 1) :
               /\ tips[j].mode.tag # "MergeTrial"
               /\ tips'[j].mode # I_Skip]_vars

\* The look-back has made the first of two skipped candidates a
\* CertainConflict and the second a MergeTrial, and restarted the pass.
C27_Witness ==
    /\ pc = "loop" /\ tip_idx = 1 /\ hist.trial_restarts = 1
    /\ HeroIsTip /\ HeroIndex = 4
    /\ tips[1].mode = I_Merge /\ tips[2].mode = I_CertainConflict
    /\ tips[3].mode.tag = "MergeTrial"
    /\ tips[3].mode = I_MergeTrial(tips[4].sidx, InputTree(shorten(tips[4].ref_name)))

----------------------------------------------------------------------------
\* The pass that follows the attribution restart.
InAttributionPass == pc = "loop" /\ ran_merge_trials_loop_safety

\* C28: after the attribution restart one more pass is made: every step of
\* it stays in that pass (no restart follows) and does not fail, until the
\* step at the end of the pass returns the Outcome.
C28_AttributionPassCompletes ==
    [][InAttributionPass =>
         /\ hist'.passes = hist.passes
         /\ pc' \in {"loop", "done"}
         /\ at_end_of_pass(Cur) => pc' = "done" /\ IsSome(outcome')]_vars

----------------------------------------------------------------------------
\* The step is the attribution restart, and the merge-trials the step made.
AttributionRestart ==
    /\ hist'.trial_restarts = hist.trial_restarts + 1
    /\ hist'.passes = hist.passes + 1
    /\ pc' = "loop" /\ tip_idx' = 1 /\ RunningStateIsEmpty(Cur')
    /\ ran_merge_trials_loop_safety'
NewTrials ==
    {j \in 1..Len(tips) : tips'[j].mode.tag = "MergeTrial"
                            /\ tips[j].mode.tag # "MergeTrial"}

\* C29: the attribution restart is taken by the step in which the hero
\* merges cleanly and the look-back makes at least one MergeTrial, and by no
\* other step; when exactly one candidate in front of the hero is excluded,
\* it becomes CertainConflict and the pass goes on with the hero adopted.
C29_RestartIffMergeTrials ==
    [][/\ HeroMergesCleanly =>
             /\ AttributionRestart <=> NewTrials # {}
             /\ NewTrials = {} => GoesOn /\ Adopts /\ tip_idx' = tip_idx + 1
             /\ (Cardinality(ExcludedBeforeHero) = 1 /\ SkippedBeforeHero # {}) =>
                   /\ \A j \in SkippedBeforeHero : tips'[j].mode = I_CertainConflict
                   /\ NewTrials = {}
                   /\ ran_merge_trials_loop_safety' = ran_merge_trials_loop_safety
       /\ ~HeroMergesCleanly =>
             /\ NewTrials = {}
             /\ hist'.trial_restarts = hist.trial_restarts
             /\ ran_merge_trials_loop_safety' = ran_merge_trials_loop_safety]_vars

\* The only excluded candidate in front of the hero has become a
\* CertainConflict, and the pass has gone on with the hero adopted and
\* without any restart of the look-back.
C29_Witness ==
    /\ pc = "loop" /\ HeroIsTip /\ tip_idx = HeroIndex + 1
    /\ ~ran_merge_trials_loop_safety /\ hist.trial_restarts = 0
    /\ Cardinality({j \in 1..(HeroIndex - 1) : tips[j].mode = I_CertainConflict}) = 1
    /\ \A j \in 1..(HeroIndex - 1) :
          tips[j].mode \in {I_Merge, I_CertainConflict}
    /\ hist.folded[Len(hist.folded)] = shorten(Unwrap(hero_stack))
    /\ Len(hist.folded) >= 2

----------------------------------------------------------------------------
\* A merge-trial merges cleanly into the running tree; the base of that
\* merge; and the test of its result against the tree of the hero.
TrialMergesCleanly ==
    /\ at_merge_tip(Cur) /\ tips[tip_idx].mode.tag = "MergeTrial"
    /\ ~MergeOfTip.has_unresolved_conflicts
BaseOfTip ==
    Unwrap(first_merge_base(graph, lowest_base(Cur), tips[tip_idx].sidx))
HeroTest ==
    merge_trees(
        Unwrap(compute_merge_base(graph, BaseOfTip, tips[HeroIndex].sidx)).tree,
        MergeOfTip.tree,
        peel_to_tree(graph, tips[HeroIndex].commit_id))

\* C30: in the attribution pass a MergeTrial that merged cleanly is tested
\* against the tree of the hero. If the test is clean the candidate becomes
\* Merge and its merge without the hero, with the base of that merge, is the
\* running tree and base; if it conflicts the candidate becomes
\* CertainConflict and running tree, running base and previous tip are what
\* they were. No other instruction changes and the pass goes on.
C30_HeroTest ==
    [][TrialMergesCleanly =>
         /\ InAttributionPass /\ HeroIsTip /\ tip_idx < HeroIndex
         /\ Retagged = {tip_idx}
         /\ GoesOn /\ tip_idx' = tip_idx + 1
         /\ IF HeroTest.has_unresolved_conflicts
            THEN /\ tips'[tip_idx].mode = I_CertainConflict
                 /\ merge_tree_id' = merge_tree_id
                 /\ prev_base_sidx' = prev_base_sidx
                 /\ previous_tip' = previous_tip
                 /\ ~Adopts
            ELSE /\ tips'[tip_idx].mode = I_Merge
                 /\ merge_tree_id' = Some(MergeOfTip.tree)
                 /\ prev_base_sidx' = Some(BaseOfTip)
                 /\ previous_tip' =
                       Some([tree |-> peel_to_tree(graph, tips[tip_idx].commit_id),
                             sidx |-> tips[tip_idx].sidx])
                 /\ Adopts]_vars

\* In the attribution pass the candidate in front has just failed its hero
\* test: it is the second CertainConflict, it merges cleanly with the
\* running tree, and the running state is that of the candidate before it.
C30_Witness ==
    /\ InAttributionPass /\ HeroIsTip /\ tip_idx = HeroIndex /\ tip_idx = 4
    /\ tips[1].mode = I_Merge
    /\ tips[2].mode = I_CertainConflict /\ tips[3].mode = I_CertainConflict
    /\ previous_tip = Some([tree |-> peel_to_tree(graph, tips[1].commit_id),
                            sidx |-> tips[1].sidx])
    /\ merge_tree_id = None /\ prev_base_sidx = None
    /\ ~merge_trees(BaseTree, peel_to_tree(graph, tips[1].commit_id),
                    peel_to_tree(graph, tips[3].commit_id)).has_unresolved_conflicts

----------------------------------------------------------------------------
\* The test of a merge-trial's merge against the tree of the hero, with the
\* lowest common ancestor of the candidate's position and the hero's position
\* as the merge base.
HeroTestFromCandidate ==
    merge_trees(
        Unwrap(compute_merge_base(graph, tips[tip_idx].sidx,
                                  tips[HeroIndex].sidx)).tree,
        MergeOfTip.tree,
        peel_to_tree(graph, tips[HeroIndex].commit_id))

\* C31: the hero test of a MergeTrial candidate uses as merge base the lowest
\* common ancestor of the candidate's position and the hero's position: the
\* candidate becomes CertainConflict exactly if the merge with that base
\* conflicts, and Merge otherwise.
C31_HeroTestBase ==
    [][TrialMergesCleanly =>
         /\ HeroTestFromCandidate.has_unresolved_conflicts
               <=> tips'[tip_idx].mode = I_CertainConflict
         /\ ~HeroTestFromCandidate.has_unresolved_conflicts
               <=> tips'[tip_idx].mode = I_Merge]_vars

----------------------------------------------------------------------------
\* The two positions of a lookup have no common ancestor, or the common
\* ancestor found has no commit; and the errors that name the positions.
NoMergeBase(left, right) ==
    \/ first_merge_base(graph, left, right) = None
    \/ tip_skip_empty(graph, Unwrap(first_merge_base(graph, left, right))) = None
NamesBothPositions(message, left, right) ==
    \/ message = "Couldn't find merge-base between segments " \o ToString(left)
                    \o " and " \o ToString(right)
    \/ \E base \in DOMAIN graph.parent :
          message = "Base segment " \o ToString(base) \o " between "
                       \o ToString(left) \o " and " \o ToString(right)
                       \o " didn't have  single commit reachable"
Aborts ==
    /\ pc' = "error" /\ outcome' = None /\ odb' = odb /\ odb = <<>>
    /\ tips' = tips /\ missing_stacks' = missing_stacks

\* C32: when the lookup of the merge base for the merge of a candidate, or
\* for its hero test, finds no common ancestor or a common ancestor without
\* a commit, the step ends the call with an error that names both positions,
\* changes no instruction and no missing stack, returns no Outcome and writes
\* nothing; and the call fails that way for no other reason.
C32_LookupFailureAborts ==
    [][/\ at_merge_tip(Cur) =>
             LET left == lowest_base(Cur)
                 right == tips[tip_idx].sidx
             IN  IF NoMergeBase(left, right)
                 THEN Aborts /\ NamesBothPositions(Unwrap(err'), left, right)
                 ELSE IF TrialMergesCleanly
                         /\ NoMergeBase(BaseOfTip, tips[HeroIndex].sidx)
                 THEN /\ Aborts
                      /\ NamesBothPositions(Unwrap(err'), BaseOfTip,
                                            tips[HeroIndex].sidx)
                 ELSE pc' = "error" =>
                         \A l, r \in DOMAIN graph.parent :
                            ~NamesBothPositions(Unwrap(err'), l, r)
       /\ ~at_merge_tip(Cur) =>
             (pc' = "error" =>
                \A l, r \in DOMAIN graph.parent :
                   ~NamesBothPositions(Unwrap(err'), l, r))]_vars

\* After an adopted merge and a skipped conflict, the call has failed at a
\* candidate whose position has no common ancestor with the running base.
C32_Witness ==
    /\ Failed /\ outcome = None /\ odb = <<>>
    /\ IsSome(prev_base_sidx) /\ tip_idx = 4
    /\ tips[3].mode = I_Skip /\ tips[4].mode = I_Merge
    /\ first_merge_base(graph, Unwrap(prev_base_sidx), tips[4].sidx) = None
    /\ NamesBothPositions(Unwrap(err), Unwrap(prev_base_sidx), tips[4].sidx)

----------------------------------------------------------------------------
\* The place of a ref name in the input, and a list of ref names that
\* follows the order of the input.
InputIndex(ref_name) == CHOOSE i \in Named : RefName(i) = ref_name
InInputOrder(ref_names) ==
    /\ \A k \in 1..Len(ref_names) : \E i \in Named : RefName(i) = ref_names[k]
    /\ \A k, l \in 1..Len(ref_names) :
          k < l => InputIndex(ref_names[k]) < InputIndex(ref_names[l])
ResolvedCommit(ref_name) ==
    Unwrap(segment_and_commit_by_ref_name(graph, ref_name)).commit

\* C33: on success each of stacks, conflicting_stacks and missing_stacks
\* lists its members in the order of the input; every entry of stacks and of
\* conflicting_stacks has the commit id its ref resolves to; stacks have the
\* shortened ref name and conflicting_stacks the full one.
C33_OrderAndIdentity ==
    Done =>
        /\ InInputOrder([k \in 1..Len(Out.stacks) |->
                            FullName(Unwrap(Out.stacks[k].name))])
        /\ InInputOrder([k \in 1..Len(Out.conflicting_stacks) |->
                            Out.conflicting_stacks[k].ref_name])
        /\ InInputOrder(Out.missing_stacks)
        /\ \A k \in 1..Len(Out.stacks) :
              \E i \in Named :
                 /\ Out.stacks[k].name = Some(shorten(RefName(i)))
                 /\ Out.stacks[k].tip = ResolvedCommit(RefName(i))
        /\ \A k \in 1..Len(Out.conflicting_stacks) :
              \E i \in Named :
                 /\ Out.conflicting_stacks[k].ref_name = RefName(i)
                 /\ Out.conflicting_stacks[k].tip = ResolvedCommit(RefName(i))

\* A successful run of more than one pass with two merged stacks around a
\* conflicting one and a missing one.
C33_Witness ==
    /\ Done /\ hist.passes >= 2
    /\ Len(Out.stacks) = 2 /\ Len(Out.conflicting_stacks) = 1
    /\ Len(Out.missing_stacks) = 1
    /\ Unwrap(Out.stacks[1].name) < shorten(Out.conflicting_stacks[1].ref_name)
    /\ shorten(Out.conflicting_stacks[1].ref_name) < Unwrap(Out.stacks[2].name)

----------------------------------------------------------------------------
\* C34: the tree of the written commit is the running tree of the last pass
\* if that pass adopted a merge; otherwise one candidate alone is active at
\* the end and the tree is the tree of its tip, whatever merges the run has
\* tried.
C34_FinalTree ==
    Done =>
        IF Len(hist.folded) >= 2
        THEN /\ IsSome(merge_tree_id)
             /\ WorkspaceCommitOf(Out).tree = merge_tree_id
             /\ WorkspaceCommitOf(Out).tree
                   = MergeOf(hist.folded, 2, InputTree(hist.folded[1]),
                             InputSegment(hist.folded[1]))
        ELSE /\ merge_tree_id = None
             /\ ActiveCount = 1 /\ Len(Out.stacks) = 1
             /\ WorkspaceCommitOf(Out).tree
                   = Some(InputTree(Unwrap(Out.stacks[1].name)))

\* The hero is left alone after the two stacks in front of it were
\* disallowed, and its tree is none of theirs.
C34_Witness ==
    /\ Done /\ hist.hero_restarts = 2 /\ hist.merges >= 3
    /\ Len(Out.stacks) = 1 /\ Len(Out.conflicting_stacks) = 2
    /\ hero_stack = Some(FullName(Unwrap(Out.stacks[1].name)))
    /\ Unwrap(Out.stacks[1].name) = 3
    /\ InputTree(3) \notin {InputTree(1), InputTree(2), BaseTree}

----------------------------------------------------------------------------
NoAllowedStackError == "BUG: no allowed stack in front of the hero"

\* C35: whenever the merge of the hero conflicts, a candidate in front of
\* the hero is active, and it is one whose tree the running tree of this pass
\* was made of; the step does not fail, and no step fails with the error of
\* the missing allowed stack.
C35_HeroHasActivePredecessor ==
    [][/\ HeroConflicts =>
             /\ \E j \in 1..(tip_idx - 1) :
                   /\ Active(tips[j].mode)
                   /\ shorten(tips[j].ref_name) \in Range(hist.folded)
             /\ hist.folded # <<>>
             /\ pc' = "loop"
       /\ pc' = "error" => Unwrap(err') # NoAllowedStackError]_vars

\* The merge of the hero conflicts with the running tree of the one
\* candidate that is still active in front of it, after a restart.
C35_Witness ==
    /\ HeroConflicts /\ hist.hero_restarts = 1 /\ tip_idx = 4
    /\ ActiveBeforeHero(tips) = 1
    /\ tips[1].mode = I_Merge /\ tips[2].mode = I_Skip /\ tips[3].mode = I_Skip

----------------------------------------------------------------------------
UnconcludedTrialError ==
    "BUG: found a merge-trial, even though trial should be concluded by now"
OnTrial(j) == tips[j].mode.tag = "MergeTrial"

\* C36: no candidate that the pass has gone past is tagged MergeTrial; so
\* none in front of the hero is when the look-back of the hero runs, the
\* call never fails with the error of the unconcluded trial, and at the end
\* of every successful run every candidate is tagged Merge, Skip or
\* CertainConflict.
C36_TrialsAreResolved ==
    /\ pc = "loop" => \A j \in 1..Len(tips) : OnTrial(j) => j >= tip_idx
    /\ AtHero => \A j \in 1..(tip_idx - 1) : ~OnTrial(j)
    /\ Failed => Unwrap(err) # UnconcludedTrialError
    /\ Done => \A j \in 1..Len(tips) :
                  tips[j].mode \in {I_Merge, I_Skip, I_CertainConflict}

\* In the attribution pass the hero is reached after a merge-trial in front
\* of it was concluded with Merge.
C36_Witness ==
    /\ InAttributionPass /\ AtHero /\ tip_idx = 4
    /\ tips[2].mode = I_CertainConflict /\ tips[3].mode = I_Merge
    /\ hist.folded[Len(hist.folded)] = shorten(tips[3].ref_name)

----------------------------------------------------------------------------
\* The ref names of the input are pairwise distinct, and a list without a
\* repetition.
DistinctRefNames == \A i, j \in Named : i # j => RefName(i) # RefName(j)
NoRepetition(sq) == \A k, l \in 1..Len(sq) : k # l => sq[k] # sq[l]
MergedRefNames(o) ==
    [k \in 1..Len(o.stacks) |-> FullName(Unwrap(o.stacks[k].name))]
ConflictingRefNames(o) ==
    [k \in 1..Len(o.conflicting_stacks) |-> o.conflicting_stacks[k].ref_name]

\* C37: for an input with pairwise distinct ref names, on success no ref
\* name is in two of stacks, conflicting_stacks and missing_stacks, and none
\* is twice in one of them.
C37_BucketsAreDisjoint ==
    (DistinctRefNames /\ Done) =>
        /\ Range(MergedRefNames(Out)) \cap Range(ConflictingRefNames(Out)) = {}
        /\ Range(MergedRefNames(Out)) \cap Range(Out.missing_stacks) = {}
        /\ Range(ConflictingRefNames(Out)) \cap Range(Out.missing_stacks) = {}
        /\ NoRepetition(MergedRefNames(Out))
        /\ NoRepetition(ConflictingRefNames(Out))
        /\ NoRepetition(Out.missing_stacks)

\* A successful run for the hero alone, with two conflicting stacks and a
\* missing one.
C37_Witness ==
    /\ Done /\ DistinctRefNames /\ IsSome(hero_stack)
    /\ MergedRefNames(Out) = <<Unwrap(hero_stack)>>
    /\ Len(Out.conflicting_stacks) = 2 /\ Len(Out.missing_stacks) = 1

----------------------------------------------------------------------------
NothingToMergeError == "BUG: Cannot merge nothing"
TipsCollected == pc \in {"loop", "done"}

\* C38: if the lookup of the preprocessing resolves a stack of the input (a
\* stack that is not dropped as Outside) in the graph, a candidate is active
\* in every state of the run that has tips, and the call fails with the
\* error of nothing to merge only if no stack was resolved; the first
\* candidate loses its active status only in a step in which the merge of the
\* hero conflicts, and the hero is tagged Merge in every state.
C38_SomeCandidateIsActive ==
    [][/\ (Candidates # {} /\ TipsCollected) => ActiveCount >= 1
       /\ (pc' = "error" /\ Unwrap(err') = NothingToMergeError) => Candidates = {}
       /\ (pc = "loop" /\ tips # <<>> /\ Active(tips[1].mode)
              /\ ~Active(tips'[1].mode)) => HeroConflicts
       /\ (TipsCollected /\ HeroIsTip) => tips[HeroIndex].mode = I_Merge]_vars

\* The first candidate has lost its active status to a hero conflict and
\* the hero is the one candidate that is active.
C38_Witness ==
    /\ pc = "loop" /\ HeroIsTip /\ HeroIndex = 3 /\ Len(tips) = 4
    /\ tips[1].mode = I_Skip /\ tips[2].mode = I_Skip
    /\ ActiveCount = 2 /\ tip_idx = 4 /\ hist.passes = 3

----------------------------------------------------------------------------
\* The commit command of the CLI (crates/but/src/commit/mod.rs).

MaxCommandStacks == 2
BranchNames == {"a", "b"}
\* What a user can give as --branch: the name of a branch or something else.
Hints == BranchNames \cup {"n"}
CannedBranchName == "canned"

\* but_workspace::ui::StackDetails, as far as the command reads it.
BranchDetails(name) == [name |-> name, tip |-> <<"tip", name>>]
StackDetails(names) ==
    [branch_details |-> [i \in 1..Len(names) |-> BranchDetails(names[i])]]

\* The branches of one stack: names without repetition.
BranchLists ==
    {names \in UNION {[1..m -> BranchNames] : m \in 1..Cardinality(BranchNames)} :
        \A i, j \in 1..Len(names) : i # j => names[i] # names[j]}

\* The stacks of the workspace: no branch is in two stacks.
StackLists ==
    {l \in UNION {[1..n -> BranchLists] : n \in 0..MaxCommandStacks} :
        \A i, j \in 1..Len(l) : \A x \in 1..Len(l[i]) : \A y \in 1..Len(l[j]) :
            i # j => l[i][x] # l[j][y]}

\* (StackId, StackDetails)
StackEntry(id, names) == [stack_id |-> id, stack_details |-> StackDetails(names)]

\* crate::id::CliId: a branch or something that is no branch.
CliBranch(name) == [kind |-> "Branch", name |-> name]
CliCommit == [kind |-> "Commit", name |-> ""]

\* What CliId::from_str makes of a hint: an error (None) or a list of ids.
ParsedHints ==
    {None, Some(<<>>), Some(<<CliCommit>>)}
        \cup {Some(<<CliCommit, CliBranch(x)>>) : x \in BranchNames}

\* Characters of a commit message; the first three are white space.
Chars == {" ", "\n", "\t", "f", "#"}
is_whitespace(ch) == ch \in {" ", "\n", "\t"}

\* The messages given with -m.
Messages ==
    {<<>>, <<" ">>, <<"\n", "\t">>, <<"f">>, <<" ", "f", "\n">>, <<"#", "f">>}

\* What the editor leaves in the file of the message.
EditorContents ==
    {<<>>, <<"\n", "#", " ">>, <<"#", "f", "\n">>, <<"f", "\n", "#">>,
     <<" ", "\n", "\t">>, <<" ", "f">>}

\* but_hunk_assignment::HunkAssignment, as far as the command reads it.
HunkAssignment(path, stack_id, hunk_header) ==
    [path_bytes |-> path, stack_id |-> stack_id, hunk_header |-> hunk_header]

\* The stack a hunk is assigned to, or none.
Owners == {None} \cup {Some(i) : i \in 1..MaxCommandStacks}

\* The assignments of the worktree: file "p" has two hunks, file "q" has no
\* change or one change without a hunk header; "q" is reported first.
Worktrees ==
    {<<>>}
    \cup {<<HunkAssignment("p", o1, Some("h1")), HunkAssignment("p", o2, Some("h2"))>> :
            o1 \in Owners, o2 \in Owners}
    \cup {<<HunkAssignment("q", o3, None), HunkAssignment("p", o1, Some("h1")),
            HunkAssignment("p", o2, Some("h2"))>> :
            o1 \in Owners, o2 \in Owners, o3 \in Owners}

\* The paths in the order of a BTreeMap<BString, _>.
Paths == <<"p", "q">>

\* anyhow::Result<()>
CmdOk == [ok |-> TRUE, error |-> ""]
CmdErr(message) == [ok |-> FALSE, error |-> message]

\* The command before it runs.
NewCommand(sts, branch_hint, cli_ids, create_branch, only, message) ==
    [pc |-> "start",
     stacks |-> sts, branch_hint |-> branch_hint, cli_ids |-> cli_ids,
     create_branch |-> create_branch, only |-> only, message |-> message,
     target |-> None, created_branches |-> <<>>, prompted |-> FALSE,
     assignments |-> <<>>, files_to_commit |-> <<>>, commit_message |-> None,
     commits |-> <<>>, printed |-> <<>>, result |-> None]

fail(c, message) == [c EXCEPT !.pc = "failed", !.result = Some(CmdErr(message))]

has_branch_named(entry, name) ==
    \E i \in 1..Len(entry.stack_details.branch_details) :
        entry.stack_details.branch_details[i].name = name

\* The first stack with a branch of the name, if there is one.
stack_of_branch(sts, name) ==
    LET found == SelectSeq(sts, LAMBDA entry : has_branch_named(entry, name))
    IN IF found = <<>> THEN None ELSE Some(Head(found))

\* The first id of the list that is a branch of a stack gives the stack.
RECURSIVE stack_of_cli_ids(_, _)
stack_of_cli_ids(sts, cli_ids) ==
    IF cli_ids = <<>> THEN None
    ELSE IF Head(cli_ids).kind = "Branch"
            /\ IsSome(stack_of_branch(sts, Head(cli_ids).name))
    THEN stack_of_branch(sts, Head(cli_ids).name)
    ELSE stack_of_cli_ids(sts, Tail(cli_ids))

find_stack_by_hint(sts, hint, parsed) ==
    IF IsSome(stack_of_branch(sts, hint)) THEN stack_of_branch(sts, hint)
    ELSE IF ~IsSome(parsed) THEN None
    ELSE stack_of_cli_ids(sts, Unwrap(parsed))

\* create_reference fails, makes a reference without a stack, or makes a
\* stack whose details can be read or not.
Creations == {"error", "no_stack", "no_details", "stack"}

create_independent_branch(c, branch_name, made) ==
    IF made = "error" THEN fail(c, "create_reference failed")
    ELSE LET d == [c EXCEPT !.created_branches = Append(@, branch_name)]
         IN CASE made = "no_stack" ->
                    fail(d, "Failed to create new branch '" \o branch_name \o "'")
              [] made = "no_details" -> fail(d, "stack_details failed")
              [] made = "stack" ->
                    [d EXCEPT
                        !.pc = "selected",
                        !.printed = Append(@, "Created new independent branch '"
                                                \o branch_name \o "'"),
                        !.target = Some(StackEntry(Len(c.stacks) + 1,
                                                   <<branch_name>>))]

\* What the user types at the prompt: no number (0 - 1) or a number.
Selections == (0 - 1)..(MaxCommandStacks + 1)

prompt_for_stack_selection(c, selection) ==
    LET d == [c EXCEPT !.prompted = TRUE,
                       !.printed = Append(@, "Multiple stacks found. Choose one to commit to:")]
    IN IF selection < 0 THEN fail(d, "Invalid selection")
       ELSE IF ~(1 <= selection /\ selection <= Len(c.stacks))
       THEN fail(d, "Selection out of range")
       ELSE [d EXCEPT !.pc = "selected", !.target = Some(c.stacks[selection])]

\* canned_branch_name fails (None) or gives a name.
CannedNames == {None, Some(CannedBranchName)}

\* A selection that makes a branch for a hint that is not found, whether
\* create_branch is set or not.
select_stack_creates_unasked(c, canned, made, selection) ==
    IF c.stacks = <<>> /\ ~c.create_branch THEN fail(c, "No stacks found.")
    ELSE IF IsSome(c.branch_hint)
    THEN IF c.stacks # <<>>
            /\ IsSome(find_stack_by_hint(c.stacks, Unwrap(c.branch_hint), c.cli_ids))
         THEN [c EXCEPT !.pc = "selected",
                        !.target = find_stack_by_hint(c.stacks, Unwrap(c.branch_hint),
                                                      c.cli_ids)]
         ELSE create_independent_branch(c, Unwrap(c.branch_hint), made)
    ELSE IF c.create_branch
    THEN IF IsSome(canned) THEN create_independent_branch(c, Unwrap(canned), made)
         ELSE fail(c, "canned_branch_name failed")
    ELSE prompt_for_stack_selection(c, selection)

select_stack(c, canned, made, selection) ==
    IF c.stacks = <<>>
    THEN IF ~c.create_branch
         THEN fail(c, "No stacks found. Create a stack for this commit using 'but commit -c <branch-name>' or 'but branch new <name>' and then commit")
         ELSE IF IsSome(c.branch_hint)
         THEN create_independent_branch(c, Unwrap(c.branch_hint), made)
         ELSE IF IsSome(canned)
         THEN create_independent_branch(c, Unwrap(canned), made)
         ELSE fail(c, "canned_branch_name failed")
    ELSE IF IsSome(c.branch_hint)
    THEN LET hint == Unwrap(c.branch_hint)
             stack == find_stack_by_hint(c.stacks, hint, c.cli_ids)
         IN IF IsSome(stack) THEN [c EXCEPT !.pc = "selected", !.target = stack]
            ELSE IF c.create_branch THEN create_independent_branch(c, hint, made)
            ELSE fail(c, "Branch '" \o hint \o "' not found")
    ELSE IF c.create_branch
    THEN IF IsSome(canned) THEN create_independent_branch(c, Unwrap(canned), made)
         ELSE fail(c, "canned_branch_name failed")
    ELSE prompt_for_stack_selection(c, selection)

\* FileAssignment::from_assignments
from_assignments(path, assignments) ==
    [path |-> path,
     assignments |-> SelectSeq(assignments, LAMBDA a : a.path_bytes = path)]

\* The values of assignments_by_file, in the order of its keys.
assignments_by_file(assignments) ==
    LET present == SelectSeq(Paths, LAMBDA path :
                        \E i \in 1..Len(assignments) : assignments[i].path_bytes = path)
    IN [i \in 1..Len(present) |-> from_assignments(present[i], assignments)]

\* crate::status::assignment::filter_by_stack_id: of every file the
\* assignments to the stack, and the file only if it has any.
RECURSIVE filter_by_stack_id(_, _)
filter_by_stack_id(files, stack_id) ==
    IF files = <<>> THEN <<>>
    ELSE LET filtered == SelectSeq(Head(files).assignments,
                                   LAMBDA a : a.stack_id = stack_id)
             rest == filter_by_stack_id(Tail(files), stack_id)
         IN IF filtered = <<>> THEN rest
            ELSE <<[path |-> Head(files).path, assignments |-> filtered]>> \o rest

files_to_commit(by_file, only, target_stack_id) ==
    (IF ~only THEN filter_by_stack_id(by_file, None) ELSE <<>>)
        \o filter_by_stack_id(by_file, Some(target_stack_id))

\* The worktree cannot be read (None) or has assignments.
collect_files(c, worktree) ==
    IF ~IsSome(worktree) THEN fail(c, "changes_in_worktree failed")
    ELSE LET assignments == Unwrap(worktree)
             files == files_to_commit(assignments_by_file(assignments), c.only,
                                      Unwrap(c.target).stack_id)
         IN IF files = <<>>
            THEN [c EXCEPT !.assignments = assignments,
                           !.printed = Append(@, "No changes to commit."),
                           !.pc = "returned", !.result = Some(CmdOk)]
            ELSE [c EXCEPT !.assignments = assignments,
                           !.files_to_commit = files, !.pc = "files"]

\* str::trim
RECURSIVE trim_start(_)
trim_start(s) ==
    IF s # <<>> /\ is_whitespace(Head(s)) THEN trim_start(Tail(s)) ELSE s

RECURSIVE trim_end(_)
trim_end(s) ==
    IF s # <<>> /\ is_whitespace(s[Len(s)])
    THEN trim_end(SubSeq(s, 1, Len(s) - 1)) ELSE s

trim(s) == trim_end(trim_start(s))

\* str::lines: the text between the line feeds; a last line that is empty
\* is no line.
RECURSIVE lines_from(_, _)
lines_from(s, line) ==
    IF s = <<>> THEN (IF line = <<>> THEN <<>> ELSE <<line>>)
    ELSE IF Head(s) = "\n" THEN <<line>> \o lines_from(Tail(s), <<>>)
    ELSE lines_from(Tail(s), Append(line, Head(s)))

lines(s) == lines_from(s, <<>>)

RECURSIVE join(_, _)
join(ls, separator) ==
    IF ls = <<>> THEN <<>>
    ELSE IF Len(ls) = 1 THEN ls[1]
    ELSE ls[1] \o <<separator>> \o join(Tail(ls), separator)

starts_with(line, ch) == line # <<>> /\ Head(line) = ch

\* The message of the file the editor has left, without its comments.
get_commit_message_from_editor(content) ==
    trim(join(SelectSeq(lines(content), LAMBDA line : ~starts_with(line, "#")), "\n"))

\* A message is no message only if it has no character at all.
is_empty_message_untrimmed(commit_message) == commit_message = <<>>

is_empty_message(commit_message) == trim(commit_message) = <<>>

\* The editor fails (None) or leaves a content; it runs only without -m.
get_message(c, editor) ==
    IF ~IsSome(c.message) /\ ~IsSome(editor)
    THEN fail(c, "Editor exited with non-zero status")
    ELSE LET commit_message ==
                 IF IsSome(c.message) THEN Unwrap(c.message)
                 ELSE get_commit_message_from_editor(Unwrap(editor))
         IN IF is_empty_message(commit_message)
            THEN fail([c EXCEPT !.commit_message = Some(commit_message)],
                      "Aborting commit due to empty commit message.")
            ELSE [c EXCEPT !.commit_message = Some(commit_message),
                           !.pc = "message"]

\* The branch of the target stack to commit to.
branch_of_name(branch_details, name) ==
    LET found == SelectSeq(branch_details, LAMBDA branch : branch.name = name)
    IN IF found = <<>> THEN None ELSE Some(Head(found))

RECURSIVE branch_of_cli_ids(_, _)
branch_of_cli_ids(branch_details, cli_ids) ==
    IF cli_ids = <<>> THEN None
    ELSE IF Head(cli_ids).kind = "Branch"
            /\ IsSome(branch_of_name(branch_details, Head(cli_ids).name))
    THEN branch_of_name(branch_details, Head(cli_ids).name)
    ELSE branch_of_cli_ids(branch_details, Tail(cli_ids))

target_branch(c) ==
    LET branch_details == Unwrap(c.target).stack_details.branch_details
    IN IF IsSome(c.branch_hint)
       THEN IF IsSome(branch_of_name(branch_details, Unwrap(c.branch_hint)))
            THEN branch_of_name(branch_details, Unwrap(c.branch_hint))
            ELSE IF IsSome(c.cli_ids)
            THEN branch_of_cli_ids(branch_details, Unwrap(c.cli_ids))
            ELSE None
       ELSE IF branch_details = <<>> THEN None ELSE Some(Head(branch_details))

\* DiffSpec of a file: the hunk headers its assignments have.
diff_spec(fa) ==
    LET with_header == SelectSeq(fa.assignments, LAMBDA a : IsSome(a.hunk_header))
    IN [previous_path |-> None, path |-> fa.path,
        hunk_headers |-> [i \in 1..Len(with_header) |->
                             Unwrap(with_header[i].hunk_header)]]

\* create_commit_from_worktree_changes fails, makes no commit or makes one.
CommitOutcomes == {"error", "none", "commit"}

create_commit(c, made) ==
    IF ~IsSome(target_branch(c))
    THEN fail(c, IF IsSome(c.branch_hint)
                 THEN "Branch '" \o Unwrap(c.branch_hint) \o "' not found in target stack"
                 ELSE "No branches found in target stack")
    ELSE LET branch == Unwrap(target_branch(c))
             new_commit ==
                 [stack_id |-> Unwrap(c.target).stack_id,
                  parent |-> branch.tip,
                  diff_specs |-> [i \in 1..Len(c.files_to_commit) |->
                                     diff_spec(c.files_to_commit[i])],
                  message |-> Unwrap(c.commit_message),
                  branch |-> branch.name]
         IN CASE made = "error" ->
                    fail(c, "create_commit_from_worktree_changes failed")
              [] made = "none" ->
                    [c EXCEPT !.printed = Append(@, "Created commit unknown on branch "
                                                      \o branch.name),
                              !.pc = "returned", !.result = Some(CmdOk)]
              [] made = "commit" ->
                    [c EXCEPT !.commits = Append(@, new_commit),
                              !.printed = Append(@, "Created commit on branch "
                                                      \o branch.name),
                              !.pc = "returned", !.result = Some(CmdOk)]

\* The steps of one invocation; the engine is not part of it.
engine == <<stacks, hero_stack, graph, workspace, run>>

SelectStack ==
    /\ command.pc = "start"
    /\ \E canned \in CannedNames : \E made \in Creations :
         \E selection \in Selections :
            command' = select_stack(command, canned, made, selection)
    /\ UNCHANGED engine

CollectFiles ==
    /\ command.pc = "selected"
    /\ \E worktree \in {None} \cup {Some(w) : w \in Worktrees} :
         command' = collect_files(command, worktree)
    /\ UNCHANGED engine

GetMessage ==
    /\ command.pc = "files"
    /\ \E editor \in {None} \cup {Some(content) : content \in EditorContents} :
         command' = get_message(command, editor)
    /\ UNCHANGED engine

CreateCommit ==
    /\ command.pc = "message"
    /\ \E made \in CommitOutcomes : command' = create_commit(command, made)
    /\ UNCHANGED engine

InitCommit ==
    /\ stacks = <<>> /\ hero_stack = None /\ graph = FlatGraph(0, <<>>)
    /\ workspace = NoWorkspace
    /\ Assign0(Fresh)
    /\ \E l \in StackLists :
         \E branch_hint \in {None} \cup {Some(h) : h \in Hints} :
            \E cli_ids \in ParsedHints :
               \E create_branch \in BOOLEAN, only \in BOOLEAN :
                  \E message \in {None} \cup {Some(m) : m \in Messages} :
                     /\ IsSome(cli_ids) => IsSome(branch_hint)
                     /\ command = NewCommand([i \in 1..Len(l) |-> StackEntry(i, l[i])],
                                             branch_hint, cli_ids, create_branch,
                                             only, message)

NextCommit == SelectStack \/ CollectFiles \/ GetMessage \/ CreateCommit

SpecCommit == InitCommit /\ [][NextCommit]_vars

----------------------------------------------------------------------------
\* A step of select_stack, and the command before and after it.
SelectStackStep == command.pc = "start" /\ command'.pc # "start"
NoStacks == command.stacks = <<>>
HasHint == IsSome(command.branch_hint)

\* The branch is the hint by its name or by one of the ids of the hint.
BranchMatchesHint(branch) ==
    \/ branch.name = Unwrap(command.branch_hint)
    \/ /\ IsSome(command.cli_ids)
       /\ \E i \in 1..Len(Unwrap(command.cli_ids)) :
            /\ Unwrap(command.cli_ids)[i].kind = "Branch"
            /\ Unwrap(command.cli_ids)[i].name = branch.name

StackMatchesHint(entry) ==
    \E i \in 1..Len(entry.stack_details.branch_details) :
        BranchMatchesHint(entry.stack_details.branch_details[i])

HintMatches ==
    HasHint /\ \E i \in 1..Len(command.stacks) : StackMatchesHint(command.stacks[i])

ExistingStacks == {command.stacks[i] : i \in 1..Len(command.stacks)}
FailsWith(message) == command'.pc = "failed" /\ command'.result = Some(CmdErr(message))
CreatesNothing == command'.created_branches = <<>>

\* The one branch made has the name, and the stack returned is a new stack
\* of that branch alone; or making it failed before or after it was made.
CreatesBranch(name) ==
    \/ /\ command'.created_branches = <<name>>
       /\ \/ /\ command'.pc = "selected"
             /\ Unwrap(command'.target) \notin ExistingStacks
             /\ Unwrap(command'.target).stack_details = StackDetails(<<name>>)
          \/ FailsWith("Failed to create new branch '" \o name \o "'")
          \/ FailsWith("stack_details failed")
    \/ CreatesNothing /\ FailsWith("create_reference failed")

\* C39: select_stack makes a branch only if create_branch is set. Without
\* stacks and without create_branch it fails. Otherwise, with a hint that
\* matches a branch of a stack it returns a stack with such a branch and
\* makes nothing, whether create_branch is set or not; with a hint that
\* matches nothing it makes a branch of the name of the hint if create_branch
\* is set and fails with "Branch '<hint>' not found" if it is not; without a
\* hint it makes a branch of the canned name if create_branch is set and
\* prompts for one of the stacks if it is not.
C39_SelectStack ==
    [][SelectStackStep =>
        /\ ~command.create_branch => CreatesNothing
        /\ (NoStacks /\ ~command.create_branch) => command'.pc = "failed"
        /\ HintMatches =>
              /\ command'.pc = "selected" /\ CreatesNothing /\ ~command'.prompted
              /\ Unwrap(command'.target) \in ExistingStacks
              /\ StackMatchesHint(Unwrap(command'.target))
        /\ (HasHint /\ ~HintMatches /\ command.create_branch) =>
              CreatesBranch(Unwrap(command.branch_hint)) /\ ~command'.prompted
        /\ (HasHint /\ ~HintMatches /\ ~command.create_branch /\ ~NoStacks) =>
              /\ FailsWith("Branch '" \o Unwrap(command.branch_hint) \o "' not found")
              /\ ~command'.prompted
        /\ (~HasHint /\ command.create_branch) =>
              /\ \/ CreatesBranch(CannedBranchName)
                 \/ CreatesNothing /\ FailsWith("canned_branch_name failed")
              /\ ~command'.prompted
        /\ (~HasHint /\ ~command.create_branch /\ ~NoStacks) =>
              /\ command'.prompted /\ CreatesNothing
              /\ \/ /\ command'.pc = "selected"
                    /\ Unwrap(command'.target) \in ExistingStacks
                 \/ FailsWith("Invalid selection")
                 \/ FailsWith("Selection out of range")]_vars

\* With create_branch set, a hint that is the name of no branch and the id
\* of a branch of the second stack has given the second stack, and no
\* branch was made.
C39_Witness ==
    /\ command.pc = "selected" /\ command.create_branch
    /\ command.branch_hint = Some("n")
    /\ command.cli_ids = Some(<<CliCommit, CliBranch("b")>>)
    /\ Len(command.stacks) = 2
    /\ command.target = Some(command.stacks[2])
    /\ command.created_branches = <<>>

----------------------------------------------------------------------------
\* The files to commit: the paths with a change that is assigned to the
\* target stack, and those with a change that is assigned to no stack unless
\* `only` is set.
AssignmentsOf(c) == {c.assignments[i] : i \in 1..Len(c.assignments)}
AssignedToTarget(c, a) == a.stack_id = Some(Unwrap(c.target).stack_id)
Unassigned(a) == a.stack_id = None
FilesToCommit(c) ==
    {a.path_bytes : a \in {b \in AssignmentsOf(c) :
        AssignedToTarget(c, b) \/ (~c.only /\ Unassigned(b))}}

WhitespaceOnly(message) == \A i \in 1..Len(message) : is_whitespace(message[i])
CollectFilesStep ==
    /\ command.pc = "selected"
    /\ command'.pc # "selected"
    /\ command'.result # Some(CmdErr("changes_in_worktree failed"))
GetMessageStep ==
    /\ command.pc = "files"
    /\ command'.pc # "files"
    /\ command'.result # Some(CmdErr("Editor exited with non-zero status"))

\* The changes a DiffSpec takes into the commit: those of its path with one
\* of its hunk headers, or all of its path if it has no hunk header.
TakenBy(c, spec) ==
    {a \in AssignmentsOf(c) :
        /\ a.path_bytes = spec.path
        /\ \/ spec.hunk_headers = <<>>
           \/ \E i \in 1..Len(spec.hunk_headers) :
                a.hunk_header = Some(spec.hunk_headers[i])}

\* C40: with no file to commit the command returns success and makes no
\* commit; with files to commit and a message that is empty or white space
\* only it fails and makes no commit; a commit that is made has a file and a
\* message that is not white space only, and with `only` set it takes no
\* change that is not assigned to the target stack.
C40_NothingToCommit ==
    [][/\ CollectFilesStep =>
            IF FilesToCommit(command') = {}
            THEN /\ command'.pc = "returned" /\ command'.result = Some(CmdOk)
                 /\ command'.commits = <<>>
            ELSE command'.pc = "files"
       /\ (GetMessageStep /\ WhitespaceOnly(Unwrap(command'.commit_message))) =>
            /\ command'.pc = "failed" /\ command'.commits = <<>>
            /\ command'.result
                  = Some(CmdErr("Aborting commit due to empty commit message."))
       /\ (GetMessageStep /\ IsSome(command.message)) =>
            command'.commit_message = command.message
       /\ command'.commits # command.commits =>
            /\ command.pc = "message" /\ command.commits = <<>>
            /\ Len(command'.commits) = 1
            /\ FilesToCommit(command) # {}
            /\ {spec.path : spec \in {command'.commits[1].diff_specs[i] :
                    i \in 1..Len(command'.commits[1].diff_specs)}}
                  = FilesToCommit(command)
            /\ ~WhitespaceOnly(command'.commits[1].message)
            /\ command.only =>
                  \A i \in 1..Len(command'.commits[1].diff_specs) :
                     \A a \in TakenBy(command, command'.commits[1].diff_specs[i]) :
                        AssignedToTarget(command, a)]_vars

\* With `only` set and a message of white space, the command has failed
\* without a commit although a file is assigned to the target stack; the
\* worktree has changes that are assigned to no stack.
C40_Witness ==
    /\ command.pc = "failed" /\ command.only
    /\ command.result = Some(CmdErr("Aborting commit due to empty commit message."))
    /\ command.message = Some(<<"\n", "\t">>)
    /\ command.files_to_commit # <<>>
    /\ \E a \in AssignmentsOf(command) : Unassigned(a)
    /\ command.commits = <<>>

====
